---- MODULE Spec2Model ----
(***************************************************************************)
(* A model of ChimeraDB's engine substrate: the write-ahead log, the       *)
(* snapshot manager, and the Document, KV, Column, Graph and Time-series   *)
(* engines built on them.                                                  *)
(*                                                                         *)
(* Files are sequences of tokens.  A WAL line is the three tokens of one   *)
(* JSON object followed by a newline token; a snapshot is a pickle of      *)
(* three tokens (protocol header, payload, STOP opcode).  A crash in the   *)
(* middle of a write leaves a proper prefix of the tokens on disk.         *)
(***************************************************************************)
EXTENDS Integers, Sequences, FiniteSets, TLC

VARIABLES
    docStore,      \* DocumentEngine.store: collection -> _id -> document
    docIndexes,    \* DocumentEngine.indexes: collection -> field -> value -> set(_id)
    docWalFile,    \* the bytes of the Document engine's WAL file
    docWalOpen,    \* WriteAheadLog.file is an open handle (not None)
    docFs,         \* the snapshot files of the Document engine: path -> bytes
    docPhase,      \* "new" (constructed), "started", "stopped" (after shutdown)
    docLast,       \* the last public operation and how it ended
    docSeen,       \* what get/query returned at the last shutdown
    kvStore,       \* KVEngine.store: collection -> key -> bytes
    kvWalFile,     \* the bytes of the KV engine's WAL file
    kvWalOpen,     \* the KV engine's WAL handle is open
    kvFs,          \* the snapshot files of the KV engine
    kvLast,        \* the last public KV operation and how it ended
    lock,          \* DocumentEngine.lock: the owning thread, or NoThread
    pc,            \* per thread: its position in the operation it runs
    todo,          \* per thread: the keys it has still to put
    cur,           \* per thread: the WAL record of the operation in hand
    done,          \* per thread: the keys whose put has returned
    got,           \* per thread: what its gets returned, by key
    applied,       \* the records in the order _apply mutated memory
    sPc,           \* the thread running startup: its position
    sOps,          \* the records startup's wal.replay() returned
    acked,         \* the records acknowledged while startup was running
    snapFs,        \* SnapshotManager on its own: path -> bytes
    snapPc,        \* the position inside SnapshotManager.create
    snapArg,       \* the state passed to the create in progress
    snapPublished, \* the state of the last create whose os.replace ran
    snapLoaded,    \* what load returned since the last create began
    colStore,      \* ColumnEngine.store: table -> column -> row_id -> value
    colIndexes,    \* ColumnEngine.indexes: table -> column -> value -> set(row_id)
    colWalFile,    \* the bytes of the Column engine's WAL file
    grStore,       \* GraphEngine.store: graph -> {nodes, edges}
    grNodeIdx,     \* GraphEngine.node_indexes: graph -> field -> value -> set(node_id)
    grEdgeIdx,     \* GraphEngine.edge_indexes: graph -> field -> value -> set(edge_id)
    grAdj,         \* GraphEngine.adjacency: graph -> node_id -> {outgoing, incoming}
    grWalFile,     \* the bytes of the Graph engine's WAL file
    grLast,        \* the last public Graph operation and how it ended
    grCalls,       \* the number of public Graph operations called so far
    tsStore,       \* TimeSeriesEngine.store: series -> {points, metadata}
    tsTimeIdx,     \* TimeSeriesEngine.time_indexes: series -> timestamp -> set(timestamp)
    tsTagIdx,      \* TimeSeriesEngine.tag_indexes: series -> tag -> value -> set(timestamp)
    tsValIdx,      \* TimeSeriesEngine.value_indexes: series -> field -> sorted timestamps
    tsWalFile,     \* the bytes of the Time-series engine's WAL file
    tsWalOpen,     \* the Time-series engine's WAL handle is open
    tsFs,          \* the snapshot files of the Time-series engine
    tsCutoff,      \* int(time.time()) - retention_days * 86400, as the clock stands
    tsLast,        \* the last public Time-series operation and how it ended
    tsCalls,       \* the number of public Time-series operations called so far
    profLast,      \* the last call of DataProfiler.profile_data and what it returned
    profCalls,     \* the number of profiler and selector calls so far
    selLast,       \* the last call of EngineSelector.select_engine and how it ended
    mxMetrics,     \* PerformanceMetrics.metrics: the list of PerformanceMetric records
    mxArrived,     \* every record passed to record_metric since construction, in order
    mxStats,       \* PerformanceMetrics.engine_stats: engine -> window name -> values
    mxClock,       \* time.time() as the clock stands: one tick per record_metric
    mxLast         \* the last public PerformanceMetrics operation and what it returned

docVars  == <<docStore, docIndexes, docWalFile, docWalOpen, docFs, docPhase, docLast, docSeen>>
kvVars   == <<kvStore, kvWalFile, kvWalOpen, kvFs, kvLast>>
thrVars  == <<lock, pc, todo, cur, done, got, applied, sPc, sOps, acked>>
snapVars == <<snapFs, snapPc, snapArg, snapPublished, snapLoaded>>
colVars  == <<colStore, colIndexes, colWalFile>>
grVars   == <<grStore, grNodeIdx, grEdgeIdx, grAdj, grWalFile, grLast, grCalls>>
tsVars   == <<tsStore, tsTimeIdx, tsTagIdx, tsValIdx, tsWalFile, tsWalOpen, tsFs, tsCutoff,
               tsLast, tsCalls>>
profVars == <<profLast, profCalls, selLast, mxMetrics, mxArrived, mxStats,
               mxClock, mxLast>>
extVars  == <<colVars, grVars, tsVars, profVars>>
vars     == <<docVars, kvVars, thrVars, snapVars, extVars>>
docOthers == <<kvVars, thrVars, snapVars, extVars>>

----------------------------------------------------------------------------
(* Bounds of the model. *)

\* a write is taken only while the WAL file holds fewer records than this
MaxWalRecords == 2
\* the Time-series engine's public operations are called at most this many times
MaxTsCalls == 3
\* the retention cutoff rises with the clock up to this timestamp
MaxCutoff == 2
\* the KV engine's limits, scaled down: max_collection_name_len,
\* max_key_name_len and max_value_size of the engine under test
MaxCollLen == 2
MaxKeyLen == 3
MaxValueSize == 2
\* the Graph engine's public operations are called at most this many times
MaxGrCalls == 3
\* the Column engine takes a write while its WAL holds fewer records than this
MaxColRecords == 3
\* the number of writer threads
NThreads == 2
\* the number of puts each writer thread performs
OpsPerThread == 2

Colls == {"x"}
Keys  == {"a", "b"}
Vals  == {1, 2}

----------------------------------------------------------------------------
(* Python dicts as functions with a finite domain. *)

EmptyMap == <<>>

MapPut(m, k, v) == [x \in (DOMAIN m) \cup {k} |-> IF x = k THEN v ELSE m[x]]

MapDrop(m, k) == [x \in (DOMAIN m) \ {k} |-> m[x]]

\* a plain assignment m[k] = d in place of setdefault
AssignDefault(m, k, d) == MapPut(m, k, d)

\* dict.setdefault(k, d) as the dict it leaves behind
SetDefault(m, k, d) == IF k \in DOMAIN m THEN m ELSE MapPut(m, k, d)

\* dict.get(k, d)
MapGet(m, k, d) == IF k \in DOMAIN m THEN m[k] ELSE d

----------------------------------------------------------------------------
(* storage/wal.py *)

LBrace == [t |-> "{"]
RBrace == [t |-> "}"]
NL     == [t |-> "nl"]
Body(op) == [t |-> "json", op |-> op]

\* json.dumps(operation): the text of one JSON object
JsonDumps(op) == <<LBrace, Body(op), RBrace>>

\* json.loads(line): the object, or a JSONDecodeError
JsonLoads(line) ==
    IF Len(line) = 3 /\ line[1].t = "{" /\ line[2].t = "json" /\ line[3].t = "}"
    THEN [ok |-> TRUE, op |-> line[2].op]
    ELSE [ok |-> FALSE]

\* WriteAheadLog.append: the file after write, flush and fsync
WalAppend(file, op) == file \o JsonDumps(op) \o <<NL>>

\* iterating a binary file: the lines, each stripped of its newline; a last
\* line with no newline is a line too
RECURSIVE FileLines(_)
FileLines(file) ==
    IF file = <<>> THEN <<>>
    ELSE IF \E i \in 1..Len(file) : file[i].t = "nl"
         THEN LET i == CHOOSE j \in 1..Len(file) :
                          /\ file[j].t = "nl"
                          /\ \A h \in 1..(j - 1) : file[h].t # "nl"
              IN  <<SubSeq(file, 1, i - 1)>> \o FileLines(SubSeq(file, i + 1, Len(file)))
         ELSE <<file>>

\* the loop of replay over the lines: blank lines are skipped, every other
\* line goes through json.loads, whose exception ends the loop
RECURSIVE ReplayLines(_, _)
ReplayLines(lines, ops) ==
    IF lines = <<>> THEN [ok |-> TRUE, ops |-> ops]
    ELSE IF Head(lines) = <<>> THEN ReplayLines(Tail(lines), ops)
    ELSE IF JsonLoads(Head(lines)).ok
         THEN ReplayLines(Tail(lines), Append(ops, JsonLoads(Head(lines)).op))
         ELSE [ok |-> FALSE, ops |-> ops]

\* WriteAheadLog.replay
WalReplay(file) == ReplayLines(FileLines(file), <<>>)

\* WriteAheadLog.rotate: the file is truncated and reopened for append
WalRotate(file) == <<>>

\* the number of newline-terminated lines of a WAL file
WalRecords(file) == Cardinality({i \in 1..Len(file) : file[i].t = "nl"})

----------------------------------------------------------------------------
(* storage/snapshot.py *)

NoFile == [exists |-> FALSE]
FileOf(bytes) == [exists |-> TRUE, bytes |-> bytes]

\* pickle.dump(data, f): protocol header, payload, STOP opcode
Pickle(data) == <<[t |-> "proto"], [t |-> "data", d |-> data], [t |-> "stop"]>>

\* pickle.load(f): the object, or an UnpicklingError / EOFError
Unpickle(bytes) ==
    IF Len(bytes) = 3 /\ bytes[1].t = "proto" /\ bytes[2].t = "data" /\ bytes[3].t = "stop"
    THEN [ok |-> TRUE, data |-> bytes[2].d]
    ELSE [ok |-> FALSE]

\* the final path used as the path written to
InPlacePath(name) == <<name>>

\* the two paths of snapshot `name`
FinalPath(name) == <<name>>
TmpPath(name) == <<name, "tmp">>

SnapPaths == {FinalPath("latest"), TmpPath("latest")}

EmptyFs == [p \in SnapPaths |-> NoFile]

\* open(tmp, 'wb'): the file is created or truncated
SnapOpenTmp(fs, name) == [fs EXCEPT ![TmpPath(name)] = FileOf(<<>>)]

\* the first n tokens of pickle.dump(data, f) have reached the file
SnapWrite(fs, name, data, n) == [fs EXCEPT ![TmpPath(name)] = FileOf(SubSeq(Pickle(data), 1, n))]

\* os.replace(tmp, final)
SnapReplace(fs, name) ==
    [fs EXCEPT ![FinalPath(name)] = fs[TmpPath(name)], ![TmpPath(name)] = NoFile]

\* SnapShotManager.create, run to its end
SnapCreate(fs, name, data) ==
    SnapReplace(SnapWrite(SnapOpenTmp(fs, name), name, data, Len(Pickle(data))), name)

\* SnapShotManager.load: {} when the file is absent
SnapLoad(fs, name) ==
    IF ~fs[FinalPath(name)].exists THEN [ok |-> TRUE, data |-> EmptyMap]
    ELSE Unpickle(fs[FinalPath(name)].bytes)

\* no load has returned yet
NotLoaded == [loaded |-> FALSE]

\* the states handed to create: whole stores
SnapStates == {EmptyMap, "x" :> ("a" :> 1), "x" :> ("a" :> 2)}

----------------------------------------------------------------------------
(* engines/document_engine.py *)

Doc(key, v) == ("_id" :> key) @@ ("v" :> v)

\* the filters given to update, delete and query: a dict of equalities, or
\* (for delete) a bare key
DictFilter(conds) == [isdict |-> TRUE, conds |-> conds]
KeyFilter(key) == [isdict |-> FALSE, key |-> key]

InsertOp(coll, doc) == [operation |-> "INSERT", collection |-> coll, document |-> doc]
UpdateOp(coll, filt, changes) ==
    [operation |-> "UPDATE", collection |-> coll, filter |-> filt, update |-> ("$set" :> changes)]
DeleteOp(coll, filt) == [operation |-> "DELETE", collection |-> coll, filter |-> filt]

\* DocumentEngine._match on a dict of equality conditions: doc.get(field)
\* of an absent field is None, which differs from every condition here
DocMatch(doc, conds) ==
    \A field \in DOMAIN conds : field \in DOMAIN doc /\ doc[field] = conds[field]

\* fld_idx.setdefault(val, set()).add(key)
PostingAdd(fldIdx, val, key) == MapPut(fldIdx, val, MapGet(fldIdx, val, {}) \cup {key})

\* ids.discard(key), and the value is popped when its set becomes empty
PostingDiscard(fldIdx, val, key) ==
    IF val \in DOMAIN fldIdx /\ fldIdx[val] # {}
    THEN IF fldIdx[val] \ {key} = {} THEN MapDrop(fldIdx, val)
         ELSE MapPut(fldIdx, val, fldIdx[val] \ {key})
    ELSE fldIdx

\* doc.items() goes through the fields in insertion order: the caller's
\* fields, then the _id that put assigns
FieldOrder == <<"tags", "v", "_id">>
FieldPos(f) == CHOOSE i \in DOMAIN FieldOrder : FieldOrder[i] = f

\* a value is usable as a key of the index dict when it is hashable; in the
\* documents modelled the field tags, and only it, holds a list
Hashable(doc, f) == f # "tags"
Unhashable(doc) == {f \in DOMAIN doc : ~Hashable(doc, f)}

\* the fields the loop over doc.items() handles before the first unhashable
\* value raises TypeError, and the field it raises at
IndexedFields(doc) ==
    {f \in DOMAIN doc : \A g \in Unhashable(doc) : FieldPos(f) < FieldPos(g)}
FailingField(doc) ==
    {g \in Unhashable(doc) : \A h \in Unhashable(doc) : FieldPos(g) <= FieldPos(h)}

\* DocumentEngine._add_to_index, as far as it gets: the field index of the
\* failing field is created by setdefault before the TypeError
DocAddToIndex(indexes, coll, key, doc) ==
    LET cidx == MapGet(indexes, coll, EmptyMap)
    IN  MapPut(indexes, coll,
               [f \in (DOMAIN cidx) \cup IndexedFields(doc) \cup FailingField(doc) |->
                   IF f \in IndexedFields(doc)
                   THEN PostingAdd(MapGet(cidx, f, EmptyMap), doc[f], key)
                   ELSE MapGet(cidx, f, EmptyMap)])

\* DocumentEngine._remove_from_index, as far as it gets
DocRemoveFromIndex(indexes, coll, key, doc) ==
    IF coll \notin DOMAIN indexes THEN indexes
    ELSE MapPut(indexes, coll,
                [f \in DOMAIN indexes[coll] |->
                    IF f \in IndexedFields(doc)
                    THEN PostingDiscard(indexes[coll][f], doc[f], key)
                    ELSE indexes[coll][f]])

\* the memory of an engine: its store and its indexes
Mem(store, indexes) == [store |-> store, indexes |-> indexes]

\* _apply, INSERT: a TypeError of _remove_from_index leaves the store alone,
\* one of _add_to_index comes after the document was stored
DocApplyInsert(m, coll, doc) ==
    LET key == doc["_id"]
        idx1 == IF key \in DOMAIN m.store[coll]
                THEN DocRemoveFromIndex(m.indexes, coll, key, m.store[coll][key])
                ELSE m.indexes
    IN  IF key \in DOMAIN m.store[coll] /\ Unhashable(m.store[coll][key]) # {}
        THEN Mem(m.store, idx1)
        ELSE Mem([m.store EXCEPT ![coll] = MapPut(@, key, doc)],
                 DocAddToIndex(idx1, coll, key, doc))

\* doc.update(changes['$set'])
DocMerge(doc, changes) ==
    [f \in (DOMAIN doc) \cup (DOMAIN changes) |-> IF f \in DOMAIN changes THEN changes[f] ELSE doc[f]]

\* _apply, UPDATE: the loop over the documents of the collection
RECURSIVE DocApplyUpdate(_, _, _, _, _)
DocApplyUpdate(m, coll, keys, conds, changes) ==
    IF keys = {} THEN m
    ELSE LET key == CHOOSE k \in keys : TRUE
             doc == m.store[coll][key]
             new == DocMerge(doc, changes)
             idx1 == DocRemoveFromIndex(m.indexes, coll, key, doc)
             m1  == IF DocMatch(doc, conds)
                    THEN Mem([m.store EXCEPT ![coll] = MapPut(@, key, new)],
                             IF Unhashable(doc) # {} THEN idx1
                             ELSE DocAddToIndex(idx1, coll, key, new))
                    ELSE m
         IN  IF DocMatch(doc, conds) /\ Unhashable(doc) \cup Unhashable(new) # {}
             THEN m1
             ELSE DocApplyUpdate(m1, coll, keys \ {key}, conds, changes)

\* _apply, DELETE: a filter that is no dict is a key
DeleteConds(filt) == IF filt.isdict THEN filt.conds ELSE ("_id" :> filt.key)

RECURSIVE DocApplyDelete(_, _, _)
DocApplyDelete(m, coll, toRemove) ==
    IF toRemove = {} THEN m
    ELSE LET key == CHOOSE k \in toRemove : TRUE
             idx1 == DocRemoveFromIndex(m.indexes, coll, key, m.store[coll][key])
         IN  IF Unhashable(m.store[coll][key]) # {}
             THEN Mem(m.store, idx1)
             ELSE DocApplyDelete(Mem([m.store EXCEPT ![coll] = MapDrop(@, key)], idx1),
                                 coll, toRemove \ {key})

\* DocumentEngine._apply
DocApply(m, op) ==
    LET coll == op.collection
        m0 == Mem(SetDefault(m.store, coll, EmptyMap), SetDefault(m.indexes, coll, EmptyMap))
    IN  CASE op.operation = "INSERT" -> DocApplyInsert(m0, coll, op.document)
          [] op.operation = "UPDATE" ->
                 IF "$set" \in DOMAIN op.update
                 THEN DocApplyUpdate(m0, coll, DOMAIN m0.store[coll], op.filter.conds,
                                     op.update["$set"])
                 ELSE m0
          [] op.operation = "DELETE" ->
                 DocApplyDelete(m0, coll,
                     {k \in DOMAIN m0.store[coll] :
                         DocMatch(m0.store[coll][k], DeleteConds(op.filter))})
          [] OTHER -> m0

\* the documents _apply's loop handles: those the record's filter matches
DocTouched(m, op) ==
    LET docs == MapGet(m.store, op.collection, EmptyMap)
    IN  CASE op.operation = "INSERT" -> {op.document["_id"]} \cap DOMAIN docs
          [] op.operation = "UPDATE" ->
                 IF "$set" \in DOMAIN op.update
                 THEN {k \in DOMAIN docs : DocMatch(docs[k], op.filter.conds)}
                 ELSE {}
          [] op.operation = "DELETE" ->
                 {k \in DOMAIN docs : DocMatch(docs[k], DeleteConds(op.filter))}
          [] OTHER -> {}

\* _apply raises TypeError: an index dict is given an unhashable value
DocApplyRaises(m, op) ==
    \/ \E k \in DocTouched(m, op) : Unhashable(m.store[op.collection][k]) # {}
    \/ op.operation = "INSERT" /\ Unhashable(op.document) # {}

\* the loop of startup over the replayed records
RECURSIVE DocApplyAll(_, _)
DocApplyAll(m, ops) ==
    IF ops = <<>> THEN m ELSE DocApplyAll(DocApply(m, Head(ops)), Tail(ops))

\* startup's rebuild of the indexes from the store
RECURSIVE DocIndexDocs(_, _, _, _)
DocIndexDocs(indexes, coll, docs, keys) ==
    IF keys = {} THEN indexes
    ELSE LET key == CHOOSE k \in keys : TRUE
         IN  DocIndexDocs(DocAddToIndex(indexes, coll, key, docs[key]), coll, docs, keys \ {key})

RECURSIVE DocBuildIndexes(_, _, _)
DocBuildIndexes(indexes, store, colls) ==
    IF colls = {} THEN indexes
    ELSE LET coll == CHOOSE c \in colls : TRUE
         IN  DocBuildIndexes(
                 DocIndexDocs(SetDefault(indexes, coll, EmptyMap), coll, store[coll],
                              DOMAIN store[coll]),
                 store, colls \ {coll})

\* self.store[collection][_id] of an id the index holds and the store does
\* not raises KeyError
KeyError == [error |-> "KeyError"]

\* DocumentEngine.query, as the set of the documents returned
DocQuery(m, coll, conds) ==
    IF Cardinality(DOMAIN conds) = 1
    THEN LET field == CHOOSE f \in DOMAIN conds : TRUE
             idx == MapGet(MapGet(m.indexes, coll, EmptyMap), field, EmptyMap)
             ids == MapGet(idx, conds[field], {})
         IN  IF \E i \in ids : i \notin DOMAIN MapGet(m.store, coll, EmptyMap)
             THEN {KeyError}
             ELSE {m.store[coll][id] : id \in {i \in ids : DocMatch(m.store[coll][i], conds)}}
    ELSE {MapGet(m.store, coll, EmptyMap)[k] :
              k \in {i \in DOMAIN MapGet(m.store, coll, EmptyMap) :
                        DocMatch(MapGet(m.store, coll, EmptyMap)[i], conds)}}

\* DocumentEngine.get: _find_one by the index, then by a full scan; the
\* documents that may be returned (none: the empty set)
DocGet(m, coll, key) ==
    LET byIndex == DocQuery(m, coll, "_id" :> key)
        byScan == {MapGet(m.store, coll, EmptyMap)[k] :
                      k \in {i \in DOMAIN MapGet(m.store, coll, EmptyMap) :
                                DocMatch(MapGet(m.store, coll, EmptyMap)[i], "_id" :> key)}}
    IN  IF byIndex # {} THEN byIndex ELSE byScan

\* what startup computes from the snapshot and the WAL: load, replay, apply,
\* rebuild.  The indexes it starts from are those in memory.
DocRecover(fs, file, indexes) ==
    LET snap == SnapLoad(fs, "latest")
        rep  == WalReplay(file)
    IN  IF ~snap.ok \/ ~rep.ok THEN [ok |-> FALSE]
        ELSE LET m == DocApplyAll(Mem(snap.data, indexes), rep.ops)
             IN  [ok |-> TRUE, store |-> m.store,
                  indexes |-> DocBuildIndexes(EmptyMap, m.store, DOMAIN m.store)]

\* the filters whose query is observed
ObsFilters == <<EmptyMap, "v" :> 1, "v" :> 2, "_id" :> "a", "_id" :> "b">>

\* what every get and every observed query returns
DocObserve(m) ==
    [gets |-> [c \in Colls |-> [k \in Keys |-> DocGet(m, c, k)]],
     queries |-> [c \in Colls |-> [i \in DOMAIN ObsFilters |-> DocQuery(m, c, ObsFilters[i])]]]

DocOutcome(name, outcome) == [op |-> name, outcome |-> outcome]

\* a public operation returned `ret`
DocReturn(name, ret) == [op |-> name, outcome |-> "ok", ret |-> ret]

\* the constructor on the paths of a previous engine: memory is empty, the
\* WAL file is opened for append, the disk is as it was left
DocNew ==
    /\ docStore' = EmptyMap
    /\ docIndexes' = EmptyMap
    /\ docWalOpen' = TRUE
    /\ docPhase' = "new"
    /\ docLast' = DocOutcome("new", "ok")
    /\ UNCHANGED <<docWalFile, docFs, docSeen>>
    /\ UNCHANGED docOthers

\* DocumentEngine.startup (and recover, which calls it)
DocStartup ==
    LET snap == SnapLoad(docFs, "latest")
        r == DocRecover(docFs, docWalFile, docIndexes)
    IN  /\ IF r.ok
           THEN /\ docStore' = r.store
                /\ docIndexes' = r.indexes
                /\ docWalFile' = WalRotate(docWalFile)
                /\ docWalOpen' = TRUE
                /\ docPhase' = "started"
                /\ docLast' = DocOutcome("startup", "ok")
           ELSE /\ docStore' = IF snap.ok THEN snap.data ELSE docStore
                /\ docLast' = DocOutcome("startup", "CorruptState")
                /\ UNCHANGED <<docIndexes, docWalFile, docWalOpen, docPhase>>
        /\ UNCHANGED <<docFs, docSeen>>
        /\ UNCHANGED docOthers

\* DocumentEngine.shutdown
DocShutdown ==
    /\ docPhase \in {"started", "stopped"}
    /\ docFs' = SnapCreate(docFs, "latest", docStore)
    /\ docWalOpen' = FALSE
    /\ docPhase' = "stopped"
    /\ docLast' = DocOutcome("shutdown", "ok")
    /\ docSeen' = [valid |-> TRUE, obs |-> DocObserve(Mem(docStore, docIndexes))]
    /\ UNCHANGED <<docStore, docIndexes, docWalFile>>
    /\ UNCHANGED docOthers

\* with self.lock: self._apply(op); self.wal.append(op), the append
\* succeeding or raising; a TypeError of _apply leaves before the append
DocCommit(name, op, appendOk) ==
    LET m == DocApply(Mem(docStore, docIndexes), op)
        raised == DocApplyRaises(Mem(docStore, docIndexes), op)
    IN  /\ docStore' = m.store
        /\ docIndexes' = m.indexes
        /\ docWalFile' = IF appendOk /\ ~raised THEN WalAppend(docWalFile, op) ELSE docWalFile
        /\ docLast' = DocOutcome(name, IF raised THEN "TypeError"
                                       ELSE IF appendOk THEN "ok" ELSE "IoFailure")
        /\ docSeen' = [valid |-> FALSE]
        /\ UNCHANGED <<docWalOpen, docFs, docPhase>>
        /\ UNCHANGED docOthers

\* the process dies inside wal.append, after _apply: the first n tokens of
\* the line are on disk, memory is gone, and a new engine is constructed
DocCrashInAppend(op, n) ==
    /\ docWalFile' = docWalFile \o SubSeq(JsonDumps(op) \o <<NL>>, 1, n)
    /\ docStore' = EmptyMap
    /\ docIndexes' = EmptyMap
    /\ docWalOpen' = TRUE
    /\ docPhase' = "new"
    /\ docLast' = DocOutcome("new", "ok")
    /\ docSeen' = [valid |-> FALSE]
    /\ UNCHANGED docFs
    /\ UNCHANGED docOthers

\* DocumentEngine.put
DocPut(coll, key, v, appendOk) ==
    DocCommit("put", InsertOp(coll, Doc(key, v)), appendOk)

\* DocumentEngine.update with the filter {_id: key}
DocUpdate(coll, key, v, appendOk) ==
    LET conds == "_id" :> key
        count == Cardinality({k \in DOMAIN MapGet(docStore, coll, EmptyMap) :
                                 DocMatch(docStore[coll][k], conds)})
    IN  IF count > 0
        THEN DocCommit("update", UpdateOp(coll, DictFilter(conds), "v" :> v), appendOk)
        ELSE /\ docLast' = DocOutcome("update", "ok")
             /\ UNCHANGED <<docStore, docIndexes, docWalFile, docWalOpen, docFs, docPhase, docSeen>>
             /\ UNCHANGED docOthers

\* DocumentEngine.update with the filter {_id: key} and $set {_id: newId}
DocUpdateId(coll, key, newId, appendOk) ==
    LET conds == "_id" :> key
        count == Cardinality({k \in DOMAIN MapGet(docStore, coll, EmptyMap) :
                                 DocMatch(docStore[coll][k], conds)})
    IN  IF count > 0
        THEN DocCommit("update", UpdateOp(coll, DictFilter(conds), "_id" :> newId), appendOk)
        ELSE /\ docLast' = DocOutcome("update", "ok")
             /\ UNCHANGED <<docStore, docIndexes, docWalFile, docWalOpen, docFs, docPhase, docSeen>>
             /\ UNCHANGED docOthers

\* a document with a list among its fields, as put receives it
DocTagged(key, v) == ("tags" :> <<1>>) @@ Doc(key, v)

\* DocumentEngine.put of such a document
DocPutTagged(coll, key, v, appendOk) ==
    DocCommit("put", InsertOp(coll, DocTagged(key, v)), appendOk)

\* DocumentEngine.delete: the record is appended only when a document went
DocDelete(coll, filt, appendOk) ==
    LET op == DeleteOp(coll, filt)
        m == DocApply(Mem(docStore, docIndexes), op)
        removed == Cardinality(DOMAIN m.store[coll])
                       < Cardinality(DOMAIN MapGet(docStore, coll, EmptyMap))
    IN  IF removed \/ DocApplyRaises(Mem(docStore, docIndexes), op)
        THEN DocCommit("delete", op, appendOk)
        ELSE /\ docStore' = m.store
             /\ docIndexes' = m.indexes
             /\ docLast' = DocReturn("delete", FALSE)
             /\ UNCHANGED <<docWalFile, docWalOpen, docFs, docPhase, docSeen>>
             /\ UNCHANGED docOthers

DeleteFilters == {KeyFilter(k) : k \in Keys} \cup {DictFilter("v" :> v) : v \in Vals}

\* a started engine takes writes while the WAL is below its bound
DocCanWrite == docPhase = "started" /\ docWalOpen /\ WalRecords(docWalFile) < MaxWalRecords

----------------------------------------------------------------------------
(* The state after construction: empty engines on empty directories, the   *)
(* WAL files open, no thread inside an operation.                          *)

NoThread == 0
Threads == 1..NThreads

\* the keys of writer thread t: disjoint from every other thread's
ThreadKeys(t) == {<<t, i>> : i \in 1..OpsPerThread}

Init ==
    /\ docStore = EmptyMap
    /\ docIndexes = EmptyMap
    /\ docWalFile = <<>>
    /\ docWalOpen = TRUE
    /\ docFs = EmptyFs
    /\ docPhase = "new"
    /\ docLast = DocOutcome("new", "ok")
    /\ docSeen = [valid |-> FALSE]
    /\ kvStore = EmptyMap
    /\ kvWalFile = <<>>
    /\ kvWalOpen = TRUE
    /\ kvFs = EmptyFs
    /\ kvLast = DocOutcome("new", "ok")
    /\ lock = NoThread
    /\ pc = [t \in Threads |-> "idle"]
    /\ todo = [t \in Threads |-> ThreadKeys(t)]
    /\ cur = [t \in Threads |-> <<>>]
    /\ done = [t \in Threads |-> {}]
    /\ got = [t \in Threads |-> <<>>]
    /\ applied = <<>>
    /\ sPc = "idle"
    /\ sOps = <<>>
    /\ acked = {}
    /\ snapFs = EmptyFs
    /\ snapPc = "idle"
    /\ snapArg = EmptyMap
    /\ snapPublished = EmptyMap
    /\ snapLoaded = NotLoaded
    /\ colStore = EmptyMap
    /\ colIndexes = EmptyMap
    /\ colWalFile = <<>>
    /\ grStore = EmptyMap
    /\ grNodeIdx = EmptyMap
    /\ grEdgeIdx = EmptyMap
    /\ grAdj = EmptyMap
    /\ grWalFile = <<>>
    /\ grLast = [op |-> "new", outcome |-> "ok"]
    /\ grCalls = 0
    /\ tsStore = EmptyMap
    /\ tsTimeIdx = EmptyMap
    /\ tsTagIdx = EmptyMap
    /\ tsValIdx = EmptyMap
    /\ tsWalFile = <<>>
    /\ tsWalOpen = TRUE
    /\ tsFs = EmptyFs
    /\ tsCutoff = 0
    /\ tsLast = [op |-> "new", outcome |-> "ok"]
    /\ tsCalls = 0
    /\ profLast = [op |-> "new", outcome |-> "ok"]
    /\ profCalls = 0
    /\ selLast = [op |-> "new", outcome |-> "ok"]
    /\ mxMetrics = <<>>
    /\ mxArrived = <<>>
    /\ mxStats = EmptyMap
    /\ mxClock = 0
    /\ mxLast = [op |-> "new", outcome |-> "ok"]

----------------------------------------------------------------------------
(* The Document engine used by one thread: startup, acknowledged writes,   *)
(* shutdown, and crashes between operations.                               *)

NextDoc ==
    \/ DocNew
    \/ docPhase = "new" /\ DocStartup
    \/ DocShutdown
    \/ \E c \in Colls, k \in Keys, v \in Vals : DocCanWrite /\ DocPut(c, k, v, TRUE)
    \/ \E c \in Colls, k \in Keys, v \in Vals : DocCanWrite /\ DocUpdate(c, k, v, TRUE)
    \/ \E c \in Colls, f \in DeleteFilters : DocCanWrite /\ DocDelete(c, f, TRUE)

SpecDoc == Init /\ [][NextDoc]_vars

\* C1: every entry held in memory is reconstructed by loading snapshot
\* 'latest' and replaying the WAL on top of it.
C1_CrashDurable ==
    LET r == DocRecover(docFs, docWalFile, EmptyMap)
    IN  /\ r.ok
        /\ \A c \in DOMAIN docStore : \A k \in DOMAIN docStore[c] :
               /\ c \in DOMAIN r.store
               /\ k \in DOMAIN r.store[c]
               /\ r.store[c][k] = docStore[c][k]

\* C2: after shutdown followed by startup on the same paths, every get and
\* every query returns what it returned just before the shutdown.
C2_RoundTrip ==
    (docSeen.valid /\ docLast = DocOutcome("startup", "ok"))
        => DocObserve(Mem(docStore, docIndexes)) = docSeen.obs

----------------------------------------------------------------------------
(* The Document engine on a disk that can fail: wal.append may raise (an   *)
(* I/O error, or the handle closed by shutdown), and the process may die   *)
(* in the middle of an append.                                             *)

NextDocIO ==
    \/ DocNew
    \/ docPhase = "new" /\ DocStartup
    \/ DocShutdown
    \/ \E c \in Colls, k \in Keys, v \in Vals : DocCanWrite /\ DocPut(c, k, v, TRUE)
    \/ \E c \in Colls, k \in Keys, v \in Vals : DocCanWrite /\ DocUpdate(c, k, v, TRUE)
    \/ \E c \in Colls, f \in DeleteFilters : DocCanWrite /\ DocDelete(c, f, TRUE)
    \/ \E c \in Colls, k \in Keys, v \in Vals : DocCanWrite /\ DocPut(c, k, v, FALSE)
    \/ \E c \in Colls, k \in Keys, v \in Vals : DocCanWrite /\ DocUpdate(c, k, v, FALSE)
    \/ \E c \in Colls, f \in DeleteFilters : DocCanWrite /\ DocDelete(c, f, FALSE)
    \/ \E c \in Colls, k \in Keys, v \in Vals, n \in 1..Len(JsonDumps(EmptyMap)) :
           DocCanWrite /\ DocCrashInAppend(InsertOp(c, Doc(k, v)), n)

SpecDocIO == Init /\ [][NextDocIO]_vars

\* C4: when the WAL append of a mutating operation fails, the in-memory
\* store and indexes are exactly what they were before the operation.
C4_DurableBeforeVisible ==
    [][docLast'.outcome = "IoFailure" => (docStore' = docStore /\ docIndexes' = docIndexes)]_vars

\* the records of the lines that end in a newline
WalCompleteOps(file) ==
    IF \E i \in 1..Len(file) : file[i].t = "nl"
    THEN WalReplay(SubSeq(file, 1, CHOOSE i \in 1..Len(file) :
                       file[i].t = "nl" /\ \A j \in (i + 1)..Len(file) : file[j].t # "nl"))
    ELSE [ok |-> TRUE, ops |-> <<>>]

\* the file ends in a record that has no newline
WalTrailingPartial(file) == file # <<>> /\ file[Len(file)].t # "nl"

\* C9: when the last record of the WAL file is partial, replay returns the
\* preceding complete records in append order, discards the partial one and
\* does not fail, and startup after such a crash succeeds.
C9_ReplayToleratesPartial ==
    /\ (WalTrailingPartial(docWalFile) /\ WalCompleteOps(docWalFile).ok)
           => WalReplay(docWalFile) = WalCompleteOps(docWalFile)
    /\ docLast.op = "startup" => docLast.outcome = "ok"

----------------------------------------------------------------------------
(* engines/kv_engine.py *)

\* base64.b64encode(value).decode('ascii') and base64.b64decode(text)
B64Encode(value) == [b64 |-> value]
B64Decode(text) == text.b64

KvPutEntry(coll, key, value) ==
    [operation |-> "PUT", collection |-> coll, key |-> key, value |-> B64Encode(value)]
KvDeleteEntry(coll, key) == [operation |-> "DELETE", collection |-> coll, key |-> key]

\* the body of startup's loop for one replayed entry
KvApplyEntry(store, entry) ==
    CASE entry.operation = "PUT" ->
             MapPut(store, entry.collection,
                    MapPut(MapGet(store, entry.collection, EmptyMap), entry.key,
                           B64Decode(entry.value)))
      [] entry.operation = "DELETE" ->
             IF entry.collection \in DOMAIN store
             THEN [store EXCEPT ![entry.collection] = MapDrop(@, entry.key)]
             ELSE store
      [] OTHER -> store

RECURSIVE KvApplyAll(_, _)
KvApplyAll(store, ops) ==
    IF ops = <<>> THEN store ELSE KvApplyAll(KvApplyEntry(store, Head(ops)), Tail(ops))

\* a put that mutates the store whether or not the append succeeded
KvPutStoreFirst(store, coll, key, value, appendOk) ==
    MapPut(store, coll, MapPut(MapGet(store, coll, EmptyMap), key, value))

\* the store after put's critical section: the append comes first, and its
\* exception leaves the store alone
KvPutStore(store, coll, key, value, appendOk) ==
    IF appendOk
    THEN MapPut(store, coll, MapPut(MapGet(store, coll, EmptyMap), key, value))
    ELSE store

\* the store after delete's critical section
KvDeleteStore(store, coll, key, appendOk) ==
    IF appendOk /\ coll \in DOMAIN store
    THEN [store EXCEPT ![coll] = MapDrop(@, key)]
    ELSE store

kvOthers == <<docVars, thrVars, snapVars, extVars>>

\* the constructor on the paths of a previous engine
KVNew ==
    /\ kvStore' = EmptyMap
    /\ kvWalOpen' = TRUE
    /\ kvLast' = [op |-> "new", outcome |-> "ok"]
    /\ UNCHANGED <<kvWalFile, kvFs>>
    /\ UNCHANGED kvOthers

\* KVEngine.startup: after the rotation it calls self.wal.__init__() with no
\* path, which raises TypeError
KVStartup ==
    LET snap == SnapLoad(kvFs, "latest")
        rep == WalReplay(kvWalFile)
    IN  /\ IF snap.ok /\ rep.ok
           THEN /\ kvStore' = KvApplyAll(snap.data, rep.ops)
                /\ kvWalFile' = WalRotate(kvWalFile)
                /\ kvWalOpen' = TRUE
                /\ kvLast' = [op |-> "startup", outcome |-> "TypeError"]
           ELSE /\ kvStore' = IF snap.ok THEN snap.data ELSE kvStore
                /\ kvLast' = [op |-> "startup", outcome |-> "CorruptState"]
                /\ UNCHANGED <<kvWalFile, kvWalOpen>>
        /\ UNCHANGED kvFs
        /\ UNCHANGED kvOthers

\* KVEngine.shutdown
KVShutdown ==
    /\ kvFs' = SnapCreate(kvFs, "latest", kvStore)
    /\ kvWalOpen' = FALSE
    /\ kvLast' = [op |-> "shutdown", outcome |-> "ok"]
    /\ UNCHANGED <<kvStore, kvWalFile>>
    /\ UNCHANGED kvOthers

\* a collection name and a key longer than the engine's limits
LongColl == "cccc"
LongKey == "kkkk"
\* len() of the names of this model
StrLen(s) ==
    CASE s = "" -> 0
      [] s = LongColl -> MaxCollLen + 1
      [] s = LongKey -> MaxKeyLen + 1
      [] OTHER -> 1
\* len(value): the blob v is v bytes long
ByteLen(value) == value

\* no name is refused
AnyName(coll, key) == TRUE

\* _validate_collection_key passes
KvValid(coll, key) ==
    /\ coll # "" /\ StrLen(coll) <= MaxCollLen
    /\ key # "" /\ StrLen(key) <= MaxKeyLen

\* a call that raises ValueError before the lock is taken
KvRefuse(name, coll, key) ==
    /\ kvLast' = [op |-> name, outcome |-> "ValueError", coll |-> coll, key |-> key]
    /\ UNCHANGED <<kvStore, kvWalFile, kvWalOpen, kvFs>>
    /\ UNCHANGED kvOthers

\* the key is reported gone whether it was there or not
KvAlwaysPopped(store, coll, key) == TRUE

\* dict.pop(key, None) is not None, told before the pop
KvPopped(store, coll, key) == key \in DOMAIN MapGet(store, coll, EmptyMap)

\* KVEngine.put; the append raises on an I/O error and on a closed handle
KVPut(coll, key, value, ioOk) ==
    LET entry == KvPutEntry(coll, key, value)
        appendOk == kvWalOpen /\ ioOk
    IN  IF ~KvValid(coll, key) \/ ByteLen(value) > MaxValueSize
        THEN KvRefuse("put", coll, key)
        ELSE /\ kvWalFile' = IF appendOk THEN WalAppend(kvWalFile, entry) ELSE kvWalFile
             /\ kvStore' = KvPutStore(kvStore, coll, key, value, appendOk)
             /\ kvLast' = [op |-> "put", outcome |-> IF appendOk THEN "ok" ELSE "IoFailure",
                           coll |-> coll, key |-> key, entry |-> entry]
             /\ UNCHANGED <<kvWalOpen, kvFs>>
             /\ UNCHANGED kvOthers

\* KVEngine.delete: true when the key was there
KVDelete(coll, key, ioOk) ==
    LET entry == KvDeleteEntry(coll, key)
        appendOk == kvWalOpen /\ ioOk
    IN  IF ~KvValid(coll, key)
        THEN KvRefuse("delete", coll, key)
        ELSE /\ kvWalFile' = IF appendOk THEN WalAppend(kvWalFile, entry) ELSE kvWalFile
             /\ kvStore' = KvDeleteStore(kvStore, coll, key, appendOk)
             /\ kvLast' = [op |-> "delete", outcome |-> IF appendOk THEN "ok" ELSE "IoFailure",
                           coll |-> coll, key |-> key, entry |-> entry,
                           ret |-> appendOk /\ KvPopped(kvStore, coll, key)]
             /\ UNCHANGED <<kvWalOpen, kvFs>>
             /\ UNCHANGED kvOthers

\* KVEngine.get: the value, or none
KvGet(store, coll, key) ==
    IF key \in DOMAIN MapGet(store, coll, EmptyMap) THEN {store[coll][key]} ELSE {}

\* KVEngine.get, called
KVGet(coll, key) ==
    IF ~KvValid(coll, key)
    THEN KvRefuse("get", coll, key)
    ELSE /\ kvLast' = [op |-> "get", outcome |-> "ok", coll |-> coll, key |-> key,
                       ret |-> KvGet(kvStore, coll, key)]
         /\ UNCHANGED <<kvStore, kvWalFile, kvWalOpen, kvFs>>
         /\ UNCHANGED kvOthers

\* KVEngine.recover: pass
KVRecover ==
    /\ kvLast' = [op |-> "recover", outcome |-> "ok"]
    /\ UNCHANGED <<kvStore, kvWalFile, kvWalOpen, kvFs>>
    /\ UNCHANGED kvOthers

\* the (collection, key) pairs and the values the public operations are
\* called with: the valid ones, and one pair for each way of being invalid
KvNames == (Colls \X Keys) \cup {<<"", "a">>, <<LongColl, "a">>, <<"x", "">>, <<"x", LongKey>>}
KvVals == Vals \cup {MaxValueSize + 1}

KvCanWrite == WalRecords(kvWalFile) < MaxWalRecords

NextKV ==
    \/ KVNew
    \/ KVStartup
    \/ KVShutdown
    \/ \E n \in KvNames, v \in KvVals, ioOk \in BOOLEAN :
           KvCanWrite /\ KVPut(n[1], n[2], v, ioOk)
    \/ \E n \in KvNames, ioOk \in BOOLEAN : KvCanWrite /\ KVDelete(n[1], n[2], ioOk)
    \/ \E n \in KvNames : KVGet(n[1], n[2])
    \/ KVRecover

SpecKV == Init /\ [][NextKV]_vars

\* C3: KV startup leaves the store at snapshot 'latest' with the WAL applied,
\* rotates the WAL, and returns normally leaving the engine usable.
C3_KvStartupCompletes ==
    kvLast.op = "startup" => (kvLast.outcome = "ok" /\ kvWalFile = <<>> /\ kvWalOpen)

\* C5: a KV put or delete whose append fails leaves the store (and the WAL)
\* unchanged; after a successful one the last WAL record is the record of
\* that operation, and applying it to the store before gives the store after.
C5_KvAppendBeforeMutate ==
    [][kvLast'.op \in {"put", "delete"} =>
          IF kvLast'.outcome = "ok"
          THEN /\ WalReplay(kvWalFile').ok
               /\ WalReplay(kvWalFile').ops = Append(WalReplay(kvWalFile).ops, kvLast'.entry)
               /\ kvStore' = KvApplyEntry(kvStore, kvLast'.entry)
          ELSE kvStore' = kvStore /\ kvWalFile' = kvWalFile]_vars

C5_Witness ==
    /\ kvLast.op \in {"put", "delete"}
    /\ kvLast.outcome = "IoFailure"
    /\ kvWalOpen
    /\ kvStore # EmptyMap
    /\ WalRecords(kvWalFile) > 0

\* C16: a KV put, get or delete called with an empty or over-long collection
\* name or key, and a put of a value larger than max_value_size, raises
\* ValueError (the engine's InvalidArgument) and leaves the store and the WAL
\* as they were.  A put that was let through has a value within the limit.
C16_KvValidation ==
    [][kvLast'.op \in {"put", "get", "delete"} =>
          /\ (\/ kvLast'.coll = "" \/ StrLen(kvLast'.coll) > MaxCollLen
               \/ kvLast'.key = "" \/ StrLen(kvLast'.key) > MaxKeyLen) =>
                 /\ kvLast'.outcome = "ValueError"
                 /\ kvStore' = kvStore
                 /\ kvWalFile' = kvWalFile
          /\ kvLast'.outcome = "ValueError" => (kvStore' = kvStore /\ kvWalFile' = kvWalFile)
          /\ (kvLast'.op = "put" /\ kvLast'.outcome = "ok") =>
                 /\ B64Decode(kvLast'.entry.value) \in Vals
                 /\ \A c \in DOMAIN kvStore' : \A k \in DOMAIN kvStore'[c] :
                        ByteLen(kvStore'[c][k]) <= MaxValueSize]_vars

\* an invalid call made on an engine that holds data and WAL records
C16_Witness ==
    /\ kvLast.op \in {"put", "get", "delete"}
    /\ kvLast.outcome = "ValueError"
    /\ kvStore # EmptyMap
    /\ WalRecords(kvWalFile) > 0

\* C18: a KV delete that returns, returns true exactly when the key was in
\* the collection; the key is gone afterwards and nothing else changed, so a
\* repeated delete returns false and leaves the store as it was; and each
\* call appends exactly one DELETE record to the WAL.
C18_KvDelete ==
    [][(kvLast'.op = "delete" /\ kvLast'.outcome = "ok") =>
          LET coll == kvLast'.coll
              key == kvLast'.key
              present == key \in DOMAIN MapGet(kvStore, coll, EmptyMap)
          IN  /\ kvLast'.ret = present
              /\ KvGet(kvStore', coll, key) = {}
              /\ kvStore' = IF present THEN [kvStore EXCEPT ![coll] = MapDrop(@, key)]
                             ELSE kvStore
              /\ WalReplay(kvWalFile').ops
                     = Append(WalReplay(kvWalFile).ops, KvDeleteEntry(coll, key))
              /\ (kvLast.op = "delete" /\ kvLast.outcome = "ok"
                     /\ kvLast.coll = coll /\ kvLast.key = key) =>
                     (kvLast'.ret = FALSE /\ kvStore' = kvStore)]_vars

\* the same key deleted twice in a row: the second call returned false and
\* the WAL holds a DELETE record for each
C18_Witness ==
    /\ kvLast.op = "delete" /\ kvLast.outcome = "ok" /\ kvLast.ret = FALSE
    /\ WalReplay(kvWalFile).ok
    /\ WalReplay(kvWalFile).ops = <<kvLast.entry, kvLast.entry>>

\* C20: recover leaves the engine in the state startup would leave it in:
\* snapshot loaded, WAL replayed on top, WAL rotated.
C20_RecoverIsStartup ==
    [][kvLast'.op = "recover" =>
          LET snap == SnapLoad(kvFs, "latest")
              rep == WalReplay(kvWalFile)
          IN  (snap.ok /\ rep.ok) =>
                  /\ kvStore' = KvApplyAll(snap.data, rep.ops)
                  /\ kvWalFile' = WalRotate(kvWalFile)]_vars

----------------------------------------------------------------------------
(* The Document engine shared by threads.  An engine started on empty      *)
(* paths has the memory and the WAL it was constructed with.  Each writer  *)
(* thread puts its own keys, one put at a time, and reads each back.       *)

\* a lock that never blocks
NeverHeld(l, t) == TRUE

\* threading.RLock: free, or already held by the caller
LockFree(l, t) == l = NoThread \/ l = t

thrOthers == <<docFs, docWalOpen, docPhase, docLast, docSeen, kvVars, snapVars, extVars>>

\* put, up to the critical section: document["_id"] = key, validation, the
\* JSON size check, and the record; a writer puts its keys in order
TPutBegin(t, key) ==
    /\ pc[t] = "idle"
    /\ key \in todo[t]
    /\ \A k \in todo[t] : key[2] <= k[2]
    /\ cur' = [cur EXCEPT ![t] = InsertOp("x", Doc(key, t))]
    /\ pc' = [pc EXCEPT ![t] = "want"]
    /\ UNCHANGED <<docStore, docIndexes, docWalFile, lock, todo, done, got, applied, sPc, sOps, acked>>
    /\ UNCHANGED thrOthers

\* with self.lock:
TAcquire(t) ==
    /\ pc[t] = "want"
    /\ LockFree(lock, t)
    /\ lock' = t
    /\ pc' = [pc EXCEPT ![t] = "locked"]
    /\ UNCHANGED <<docStore, docIndexes, docWalFile, todo, cur, done, got, applied, sPc, sOps, acked>>
    /\ UNCHANGED thrOthers

\* self._apply(op)
TApply(t) ==
    /\ pc[t] = "locked"
    /\ LET m == DocApply(Mem(docStore, docIndexes), cur[t])
       IN  docStore' = m.store /\ docIndexes' = m.indexes
    /\ applied' = Append(applied, cur[t])
    /\ pc' = [pc EXCEPT ![t] = "applied"]
    /\ UNCHANGED <<docWalFile, lock, todo, cur, done, got, sPc, sOps, acked>>
    /\ UNCHANGED thrOthers

\* self.wal.append(op)
TAppend(t) ==
    /\ pc[t] = "applied"
    /\ docWalFile' = WalAppend(docWalFile, cur[t])
    /\ pc' = [pc EXCEPT ![t] = "appended"]
    /\ UNCHANGED <<docStore, docIndexes, lock, todo, cur, done, got, applied, sPc, sOps, acked>>
    /\ UNCHANGED thrOthers

\* the critical section is left and put returns
TRelease(t) ==
    /\ pc[t] = "appended"
    /\ lock' = NoThread
    /\ todo' = [todo EXCEPT ![t] = @ \ {cur[t].document["_id"]}]
    /\ done' = [done EXCEPT ![t] = @ \cup {cur[t].document["_id"]}]
    /\ acked' = IF sPc \in {"loaded", "replayed", "rebuilt"} THEN acked \cup {cur[t]} ELSE acked
    /\ pc' = [pc EXCEPT ![t] = "read"]
    /\ UNCHANGED <<docStore, docIndexes, docWalFile, cur, got, applied, sPc, sOps>>
    /\ UNCHANGED thrOthers

\* get of the key just put: _find_one in one critical section
TGet(t) ==
    /\ pc[t] = "read"
    /\ LockFree(lock, t)
    /\ got' = [got EXCEPT ![t] = MapPut(@, cur[t].document["_id"],
                   DocGet(Mem(docStore, docIndexes), "x", cur[t].document["_id"]))]
    /\ pc' = [pc EXCEPT ![t] = "idle"]
    /\ UNCHANGED <<docStore, docIndexes, docWalFile, lock, todo, cur, done, applied, sPc, sOps, acked>>
    /\ UNCHANGED thrOthers

NextWriters ==
    \/ \E t \in Threads : \E key \in ThreadKeys(t) : TPutBegin(t, key)
    \/ \E t \in Threads : TAcquire(t)
    \/ \E t \in Threads : TApply(t)
    \/ \E t \in Threads : TAppend(t)
    \/ \E t \in Threads : TRelease(t)
    \/ \E t \in Threads : TGet(t)

SpecWriters == Init /\ [][NextWriters]_vars

AllWritten == \A t \in Threads : todo[t] = {} /\ pc[t] = "idle"

C8_WalOrderIsApplyOrder ==
    LET rep == WalReplay(docWalFile)
    IN  /\ rep.ok
        /\ Len(rep.ops) <= Len(applied)
        /\ rep.ops = SubSeq(applied, 1, Len(rep.ops))
        /\ Len(applied) - Len(rep.ops) <= 1
        /\ lock = NoThread => rep.ops = applied

C8_Witness ==
    /\ AllWritten
    /\ WalReplay(docWalFile).ops = applied
    /\ Len(applied) = NThreads * OpsPerThread
    /\ \E i \in 1..(Len(applied) - 1) :
           applied[i].document["v"] > applied[i + 1].document["v"]

----------------------------------------------------------------------------
(* The same writers while another thread runs startup.  startup takes no   *)
(* lock: only recover wraps it in one.                                     *)

\* snapshot = self.snapshot_mgr.load('latest'); self.store = snapshot or {}
SLoad ==
    /\ sPc = "idle"
    /\ docStore' = SnapLoad(docFs, "latest").data
    /\ sPc' = "loaded"
    /\ UNCHANGED <<docIndexes, docWalFile, lock, pc, todo, cur, done, got, applied, sOps, acked>>
    /\ UNCHANGED thrOthers

\* self.wal.replay(): the file is read to its end
SReplay ==
    /\ sPc = "loaded"
    /\ sOps' = WalReplay(docWalFile).ops
    /\ sPc' = "replayed"
    /\ UNCHANGED <<docStore, docIndexes, docWalFile, lock, pc, todo, cur, done, got, applied, acked>>
    /\ UNCHANGED thrOthers

\* one turn of the loop: self._apply(op)
SApply ==
    /\ sPc = "replayed"
    /\ sOps # <<>>
    /\ LET m == DocApply(Mem(docStore, docIndexes), Head(sOps))
       IN  docStore' = m.store /\ docIndexes' = m.indexes
    /\ sOps' = Tail(sOps)
    /\ UNCHANGED <<docWalFile, lock, pc, todo, cur, done, got, applied, sPc, acked>>
    /\ UNCHANGED thrOthers

\* self.indexes = {} and the rebuild from the store
SRebuild ==
    /\ sPc = "replayed"
    /\ sOps = <<>>
    /\ docIndexes' = DocBuildIndexes(EmptyMap, docStore, DOMAIN docStore)
    /\ sPc' = "rebuilt"
    /\ UNCHANGED <<docStore, docWalFile, lock, pc, todo, cur, done, got, applied, sOps, acked>>
    /\ UNCHANGED thrOthers

\* self.wal.rotate(), and startup returns
SRotate ==
    /\ sPc = "rebuilt"
    /\ docWalFile' = WalRotate(docWalFile)
    /\ sPc' = "done"
    /\ UNCHANGED <<docStore, docIndexes, lock, pc, todo, cur, done, got, applied, sOps, acked>>
    /\ UNCHANGED thrOthers

NextStartupRace ==
    \/ \E t \in Threads : \E key \in ThreadKeys(t) : TPutBegin(t, key)
    \/ \E t \in Threads : TAcquire(t)
    \/ \E t \in Threads : TApply(t)
    \/ \E t \in Threads : TAppend(t)
    \/ \E t \in Threads : TRelease(t)
    \/ \E t \in Threads : TGet(t)
    \/ SLoad
    \/ SReplay
    \/ SApply
    \/ SRebuild
    \/ SRotate

SpecStartupRace == Init /\ [][NextStartupRace]_vars

\* C6: startup runs entirely under the engine lock, so a write acknowledged
\* while another thread is running startup is neither dropped from memory
\* nor truncated out of the WAL.
C6_StartupUnderLock ==
    sPc = "done" =>
        \A r \in acked :
            /\ r.document["_id"] \in DOMAIN MapGet(docStore, "x", EmptyMap)
            /\ \E i \in DOMAIN WalReplay(docWalFile).ops : WalReplay(docWalFile).ops[i] = r

----------------------------------------------------------------------------
(* The snapshot manager on its own: create runs step by step, the process  *)
(* can die at any step, and the next process loads from the same path.     *)

snapOthers == <<docVars, kvVars, thrVars, extVars>>

\* create up to open(tmp, 'wb'): the temporary file exists and is empty
SnapCreateOpen(data) ==
    /\ snapPc = "idle"
    /\ snapArg' = data
    /\ snapFs' = SnapOpenTmp(snapFs, "latest")
    /\ snapLoaded' = NotLoaded
    /\ snapPc' = "writing"
    /\ UNCHANGED snapPublished
    /\ UNCHANGED snapOthers

\* pickle.dump(data, f): one more token of the pickle reaches the file
SnapDump ==
    /\ snapPc = "writing"
    /\ Len(snapFs[TmpPath("latest")].bytes) < Len(Pickle(snapArg))
    /\ snapFs' = SnapWrite(snapFs, "latest", snapArg,
                           Len(snapFs[TmpPath("latest")].bytes) + 1)
    /\ UNCHANGED <<snapPc, snapArg, snapPublished, snapLoaded>>
    /\ UNCHANGED snapOthers

\* f.flush(); os.fsync(f.fileno()); the file is closed
SnapFsync ==
    /\ snapPc = "writing"
    /\ Len(snapFs[TmpPath("latest")].bytes) = Len(Pickle(snapArg))
    /\ snapPc' = "synced"
    /\ UNCHANGED <<snapFs, snapArg, snapPublished, snapLoaded>>
    /\ UNCHANGED snapOthers

\* os.replace(tmp, final)
SnapRename ==
    /\ snapPc = "synced"
    /\ snapFs' = SnapReplace(snapFs, "latest")
    /\ snapPublished' = snapArg
    /\ snapPc' = "renamed"
    /\ UNCHANGED <<snapArg, snapLoaded>>
    /\ UNCHANGED snapOthers

\* create returns
SnapReturn ==
    /\ snapPc = "renamed"
    /\ snapPc' = "idle"
    /\ UNCHANGED <<snapFs, snapArg, snapPublished, snapLoaded>>
    /\ UNCHANGED snapOthers

\* the process dies inside create; the files stay as they are and a new
\* process opens a manager on the same path
SnapCrash ==
    /\ snapPc # "idle"
    /\ snapPc' = "idle"
    /\ UNCHANGED <<snapFs, snapArg, snapPublished, snapLoaded>>
    /\ UNCHANGED snapOthers

\* load('latest')
SnapLoadStep ==
    /\ snapPc = "idle"
    /\ snapLoaded' = [loaded |-> TRUE] @@ SnapLoad(snapFs, "latest")
    /\ UNCHANGED <<snapFs, snapPc, snapArg, snapPublished>>
    /\ UNCHANGED snapOthers

NextSnap ==
    \/ \E data \in SnapStates : SnapCreateOpen(data)
    \/ SnapDump
    \/ SnapFsync
    \/ SnapRename
    \/ SnapReturn
    \/ SnapCrash
    \/ SnapLoadStep

SpecSnap == Init /\ [][NextSnap]_vars

\* C10: whatever step of create the process died at, load returns a
\* complete state: the one published by the last create whose rename ran
\* (the previous one before the rename, the new one after it, empty if
\* none), never a partial pickle; and what load returns does not depend on
\* the temporary file.
C10_SnapshotAtomic ==
    /\ SnapLoad(snapFs, "latest") = [ok |-> TRUE, data |-> snapPublished]
    /\ snapLoaded.loaded => (snapLoaded.ok /\ snapLoaded.data = snapPublished)
    /\ snapPublished \in SnapStates
    /\ \A f \in {NoFile, FileOf(<<>>), FileOf(Pickle(snapArg))} :
           SnapLoad([snapFs EXCEPT ![TmpPath("latest")] = f], "latest")
               = SnapLoad(snapFs, "latest")

\* a create died with a partial temporary file over a published snapshot of
\* another state, and load returned after it
C10_Witness ==
    /\ snapPc = "idle"
    /\ snapFs[TmpPath("latest")].exists
    /\ Len(snapFs[TmpPath("latest")].bytes) \in 1..2
    /\ snapPublished # EmptyMap
    /\ snapArg # snapPublished
    /\ snapLoaded.loaded
    /\ snapLoaded.data = snapPublished

----------------------------------------------------------------------------
(* The Document engine's store and indexes under every put, update and     *)
(* delete, with documents that carry a list and updates that set _id.      *)

\* the loops of _apply go through a dict in its insertion order, which the
\* model does not keep: an operation whose result depends on that order (an
\* exception after some of several matched documents) is not taken
DocOrderFree(op) ==
    \/ Cardinality(DocTouched(Mem(docStore, docIndexes), op)) <= 1
    \/ ~DocApplyRaises(Mem(docStore, docIndexes), op)

\* update: the filter {_id: key} reaches one document unless an earlier
\* update gave two documents the same _id
DocUpdateFree(coll, key, changes) ==
    DocOrderFree(UpdateOp(coll, DictFilter("_id" :> key), changes))

NextDocIdx ==
    \/ DocNew
    \/ docPhase = "new" /\ DocStartup
    \/ \E c \in Colls, k \in Keys, v \in Vals : DocCanWrite /\ DocPut(c, k, v, TRUE)
    \/ \E c \in Colls, k \in Keys, v \in Vals : DocCanWrite /\ DocPutTagged(c, k, v, TRUE)
    \/ \E c \in Colls, k \in Keys, v \in Vals :
           DocCanWrite /\ DocUpdateFree(c, k, "v" :> v) /\ DocUpdate(c, k, v, TRUE)
    \/ \E c \in Colls, k \in Keys, n \in Keys :
           DocCanWrite /\ DocUpdateFree(c, k, "_id" :> n) /\ DocUpdateId(c, k, n, TRUE)
    \/ \E c \in Colls, f \in DeleteFilters :
           DocCanWrite /\ DocOrderFree(DeleteOp(c, f)) /\ DocDelete(c, f, TRUE)

SpecDocIdx == Init /\ [][NextDocIdx]_vars

\* C11: the equality index of each collection is an exact view of the
\* store: every id an index entry holds is a stored document with that
\* value in that field, and every stored field with a value that can be an
\* index key has its id in the entry of that value.
C11_DocIndexExact ==
    /\ \A c \in DOMAIN docIndexes : \A f \in DOMAIN docIndexes[c] :
           \A val \in DOMAIN docIndexes[c][f] : \A id \in docIndexes[c][f][val] :
               /\ id \in DOMAIN MapGet(docStore, c, EmptyMap)
               /\ f \in DOMAIN docStore[c][id]
               /\ docStore[c][id][f] = val
    /\ \A c \in DOMAIN docStore : \A id \in DOMAIN docStore[c] :
           \A f \in DOMAIN docStore[c][id] :
               Hashable(docStore[c][id], f) =>
                   id \in MapGet(MapGet(MapGet(docIndexes, c, EmptyMap), f, EmptyMap),
                                 docStore[c][id][f], {})

\* C15: every document stored under key k has _id = k.
C15_DocIdIsKey ==
    \A c \in DOMAIN docStore : \A k \in DOMAIN docStore[c] : docStore[c][k]["_id"] = k

\* C19: a delete that matches nothing returns false, appends no record and
\* leaves the store and the indexes exactly as they were.
C19_IneffectiveDeleteIsNoop ==
    [][docLast' = DocReturn("delete", FALSE) =>
          (docStore' = docStore /\ docIndexes' = docIndexes /\ docWalFile' = docWalFile)]_vars

----------------------------------------------------------------------------
(* The Document engine's filters: comparison conditions in query, filters  *)
(* that do not name _id in update, and documents that hold a tree in put.  *)

CmpOps == {"$gt", "$gte", "$lt", "$lte", "$ne"}

\* the fields a condition names: v holds an integer, _id a string, tags a
\* list, and no document has a field w
CmpFields == {"v", "w", "_id", "tags"}

\* the Python type of doc.get(field)
ValKind(doc, field) ==
    IF field \notin DOMAIN doc THEN "NoneType"
    ELSE IF field = "v" THEN "int"
    ELSE IF field = "_id" THEN "str"
    ELSE "list"

\* _match on one condition {field: {op: threshold}} with an integer
\* threshold: an order comparison of None, a str or a list with an int
\* raises TypeError, and != of values of two types is True
DocCompare(doc, field, op, threshold) ==
    IF op = "$ne"
    THEN IF ValKind(doc, field) = "int" /\ doc[field] = threshold THEN "nomatch" ELSE "match"
    ELSE IF ValKind(doc, field) # "int" THEN "TypeError"
    ELSE IF \/ op = "$gt" /\ doc[field] > threshold
            \/ op = "$gte" /\ doc[field] >= threshold
            \/ op = "$lt" /\ doc[field] < threshold
            \/ op = "$lte" /\ doc[field] <= threshold
         THEN "match" ELSE "nomatch"

\* DocumentEngine.query with a filter whose one condition is a dict: the
\* full scan, which an exception of _match on any document ends
DocQueryCmp(coll, field, op, threshold) ==
    LET docs == MapGet(docStore, coll, EmptyMap)
        verdict(k) == DocCompare(docs[k], field, op, threshold)
    IN  /\ docLast' = IF \E k \in DOMAIN docs : verdict(k) = "TypeError"
                      THEN DocOutcome("query", "TypeError")
                      ELSE DocReturn("query", {docs[k] : k \in {i \in DOMAIN docs : verdict(i) = "match"}})
        /\ UNCHANGED <<docStore, docIndexes, docWalFile, docWalOpen, docFs, docPhase, docSeen>>
        /\ UNCHANGED docOthers

\* the documents a comparison is true of: those that hold an integer in
\* the field which stands in the relation to the threshold
CmpHolds(doc, field, op, threshold) ==
    /\ ValKind(doc, field) = "int"
    /\ \/ op = "$gt" /\ doc[field] > threshold
       \/ op = "$gte" /\ doc[field] >= threshold
       \/ op = "$lt" /\ doc[field] < threshold
       \/ op = "$lte" /\ doc[field] <= threshold
       \/ op = "$ne" /\ doc[field] # threshold

\* the filters given to update: with and without _id
UpdateFilters ==
    {"v" :> v : v \in Vals} \cup {("_id" :> k) @@ ("v" :> v) : k \in Keys, v \in Vals}
        \cup {"_id" :> k : k \in Keys}

\* DocumentEngine.update: _validate_collection_id on filt.get('_id', None),
\* the count of the matching documents, and when there is one the _apply
\* and the append; the count is returned
DocUpdateWhere(coll, conds, v) ==
    LET docs == MapGet(docStore, coll, EmptyMap)
        count == Cardinality({k \in DOMAIN docs : DocMatch(docs[k], conds)})
        op == UpdateOp(coll, DictFilter(conds), "v" :> v)
        m == DocApply(Mem(docStore, docIndexes), op)
        raised == DocApplyRaises(Mem(docStore, docIndexes), op)
    IN  IF "_id" \notin DOMAIN conds
        THEN /\ docLast' = DocOutcome("update", "ValueError")
             /\ UNCHANGED <<docStore, docIndexes, docWalFile, docWalOpen, docFs, docPhase, docSeen>>
             /\ UNCHANGED docOthers
        ELSE IF count = 0
        THEN /\ docLast' = DocReturn("update", 0)
             /\ UNCHANGED <<docStore, docIndexes, docWalFile, docWalOpen, docFs, docPhase, docSeen>>
             /\ UNCHANGED docOthers
        ELSE /\ docStore' = m.store
             /\ docIndexes' = m.indexes
             /\ docWalFile' = IF raised THEN docWalFile ELSE WalAppend(docWalFile, op)
             /\ docLast' = IF raised THEN DocOutcome("update", "TypeError")
                           ELSE DocReturn("update", count)
             /\ docSeen' = [valid |-> FALSE]
             /\ UNCHANGED <<docWalOpen, docFs, docPhase>>
             /\ UNCHANGED docOthers

NextDocFilt ==
    \/ DocNew
    \/ docPhase = "new" /\ DocStartup
    \/ \E c \in Colls, k \in Keys, v \in Vals : DocCanWrite /\ DocPut(c, k, v, TRUE)
    \/ \E c \in Colls, k \in Keys, v \in Vals : DocCanWrite /\ DocPutTagged(c, k, v, TRUE)
    \/ \E c \in Colls, conds \in UpdateFilters, v \in Vals :
           DocCanWrite /\ DocUpdateWhere(c, conds, v)
    \/ \E c \in Colls, f \in CmpFields, op \in CmpOps, thr \in Vals :
           docPhase = "started" /\ DocQueryCmp(c, f, op, thr)

SpecDocFilt == Init /\ [][NextDocFilt]_vars

\* C21: a query by a comparison never fails: it returns normally, and it
\* returns exactly the documents whose field holds a value of the
\* threshold's type that stands in the relation to it; a document without
\* the field, or with a value of another type, is not a match.
C21_ComparisonNeverFails ==
    [][\A c \in Colls, f \in CmpFields, op \in CmpOps, thr \in Vals :
           DocQueryCmp(c, f, op, thr) =>
               docLast' = DocReturn("query",
                   {docStore[c][k] : k \in {i \in DOMAIN MapGet(docStore, c, EmptyMap) :
                                               CmpHolds(docStore[c][i], f, op, thr)}})]_vars

\* C22: update by any filter, with or without _id, returns the number of
\* the documents that match it and sets the fields on exactly those; with
\* no match it returns 0 and leaves the store and the WAL as they were.
C22_UpdateByAnyFilter ==
    [][\A c \in Colls, conds \in UpdateFilters, v \in Vals :
           DocUpdateWhere(c, conds, v) =>
               LET docs == MapGet(docStore, c, EmptyMap)
                   matched == {k \in DOMAIN docs : DocMatch(docs[k], conds)}
               IN  /\ docLast' = DocReturn("update", Cardinality(matched))
                   /\ matched = {} => (docStore' = docStore /\ docWalFile' = docWalFile)
                   /\ \A k \in DOMAIN docs :
                          docStore'[c][k] = IF k \in matched THEN DocMerge(docs[k], "v" :> v)
                                            ELSE docs[k]]_vars

\* C23: put of a document that holds a tree (a list or a mapping among its
\* values) succeeds: get returns the document, and the store and the WAL
\* both have it.
C23_PutTreeDocument ==
    [][\A c \in Colls, k \in Keys, v \in Vals :
           DocPutTagged(c, k, v, TRUE) =>
               /\ docLast' = DocOutcome("put", "ok")
               /\ docStore'[c][k] = DocTagged(k, v)
               /\ WalRecords(docWalFile') = WalRecords(docWalFile) + 1]_vars

----------------------------------------------------------------------------
(* engines/column_engine.py *)

colOthers == <<docVars, kvVars, thrVars, snapVars, grVars, tsVars, profVars>>

Tables == {"t"}
\* the rows given to put, before put sets their _id
Rows == {"c" :> 1, ("c" :> 1) @@ ("d" :> 2), "d" :> 1}
\* the column maps given to update
Updates == {"c" :> 2, "d" :> 1}

ColInsertOp(table, rowId, row) ==
    [operation |-> "INSERT", table |-> table, row_id |-> rowId, row_data |-> row]
ColUpdateOp(table, rowId, updates) ==
    [operation |-> "UPDATE", table |-> table, row_id |-> rowId, updates |-> updates]
ColDeleteOp(table, rowId) == [operation |-> "DELETE", table |-> table, row_id |-> rowId]

\* _remove_from_index(table, col, row_id, values.get(row_id)) for the column
\* index cidx: a row the column does not hold has value None, which is no key
ColDiscard(cidx, values, rowId) ==
    IF rowId \in DOMAIN values THEN PostingDiscard(cidx, values[rowId], rowId) ELSE cidx

\* _apply, INSERT, on the columns t0 and the column indexes i0 of the table
ColApplyInsert(t0, i0, rowId, row) ==
    LET overwrite == rowId \in DOMAIN MapGet(t0, "_id", EmptyMap)
        i1 == IF overwrite
              THEN [col \in DOMAIN i0 |->
                       IF col \in DOMAIN t0 THEN ColDiscard(i0[col], t0[col], rowId)
                       ELSE i0[col]]
              ELSE i0
    IN  Mem([col \in (DOMAIN t0) \cup (DOMAIN row) |->
                IF col \in DOMAIN row
                THEN MapPut(MapGet(t0, col, EmptyMap), rowId, row[col])
                ELSE t0[col]],
            [col \in (DOMAIN i1) \cup (DOMAIN row) |->
                IF col \in DOMAIN row
                THEN PostingAdd(MapGet(i1, col, EmptyMap), row[col], rowId)
                ELSE i1[col]])

\* _apply, UPDATE: the index is touched only for a column it already has
ColApplyUpdate(t0, i0, rowId, updates) ==
    Mem([col \in (DOMAIN t0) \cup (DOMAIN updates) |->
            IF col \in DOMAIN updates
            THEN MapPut(MapGet(t0, col, EmptyMap), rowId, updates[col])
            ELSE t0[col]],
        [col \in DOMAIN i0 |->
            IF col \in DOMAIN updates
            THEN PostingAdd(ColDiscard(i0[col], MapGet(t0, col, EmptyMap), rowId),
                            updates[col], rowId)
            ELSE i0[col]])

\* _apply, DELETE
ColApplyDelete(t0, i0, rowId) ==
    Mem([col \in DOMAIN t0 |-> MapDrop(t0[col], rowId)],
        [col \in DOMAIN i0 |->
            IF col \in DOMAIN t0 THEN ColDiscard(i0[col], t0[col], rowId) ELSE i0[col]])

\* ColumnEngine._apply
ColApply(m, op) ==
    LET table == op.table
        t0 == MapGet(m.store, table, EmptyMap)
        i0 == MapGet(m.indexes, table, EmptyMap)
        r  == CASE op.operation = "INSERT" -> ColApplyInsert(t0, i0, op.row_id, op.row_data)
                [] op.operation = "UPDATE" -> ColApplyUpdate(t0, i0, op.row_id, op.updates)
                [] op.operation = "DELETE" -> ColApplyDelete(t0, i0, op.row_id)
                [] OTHER -> Mem(t0, i0)
    IN  Mem(MapPut(m.store, table, r.store), MapPut(m.indexes, table, r.indexes))

\* _filter_row_ids for the filter {column: value}: the index entry
ColFilterRowIds(m, table, column, value) ==
    MapGet(MapGet(MapGet(m.indexes, table, EmptyMap), column, EmptyMap), value, {})

\* with self.lock: self._apply(op); self.wal.append(op)
ColCommit(op) ==
    LET m == ColApply(Mem(colStore, colIndexes), op)
    IN  /\ colStore' = m.store
        /\ colIndexes' = m.indexes
        /\ colWalFile' = WalAppend(colWalFile, op)

\* ColumnEngine.put
ColPut(table, key, row) ==
    /\ ColCommit(ColInsertOp(table, key, row @@ ("_id" :> key)))
    /\ UNCHANGED colOthers

\* ColumnEngine.update with the filter {_id: key}: one record per row found
ColUpdate(table, key, updates) ==
    /\ IF ColFilterRowIds(Mem(colStore, colIndexes), table, "_id", key) = {key}
       THEN ColCommit(ColUpdateOp(table, key, updates))
       ELSE UNCHANGED colVars
    /\ UNCHANGED colOthers

\* ColumnEngine.delete of a key
ColDelete(table, key) ==
    /\ IF ColFilterRowIds(Mem(colStore, colIndexes), table, "_id", key) = {key}
       THEN ColCommit(ColDeleteOp(table, key))
       ELSE UNCHANGED colVars
    /\ UNCHANGED colOthers

ColCanWrite == WalRecords(colWalFile) < MaxColRecords

NextCol ==
    \/ \E t \in Tables, k \in Keys, r \in Rows : ColCanWrite /\ ColPut(t, k, r)
    \/ \E t \in Tables, k \in Keys, u \in Updates : ColCanWrite /\ ColUpdate(t, k, u)
    \/ \E t \in Tables, k \in Keys : ColCanWrite /\ ColDelete(t, k)

SpecCol == Init /\ [][NextCol]_vars

\* C12: row-id r is in indexes[table][column][value] if and only if
\* store[table][column][r] = value.
C12_ColIndexExact ==
    /\ \A t \in DOMAIN colIndexes : \A col \in DOMAIN colIndexes[t] :
           \A val \in DOMAIN colIndexes[t][col] : \A r \in colIndexes[t][col][val] :
               /\ col \in DOMAIN MapGet(colStore, t, EmptyMap)
               /\ r \in DOMAIN colStore[t][col]
               /\ colStore[t][col][r] = val
    /\ \A t \in DOMAIN colStore : \A col \in DOMAIN colStore[t] :
           \A r \in DOMAIN colStore[t][col] :
               r \in ColFilterRowIds(Mem(colStore, colIndexes), t, col, colStore[t][col][r])

\* the row that get and query build for a row id: its value in every column
\* of the table that holds it
ColRow(m, table, rowId) ==
    LET t0 == MapGet(m.store, table, EmptyMap)
    IN  [col \in {c \in DOMAIN t0 : rowId \in DOMAIN t0[c]} |-> t0[col][rowId]]

\* ColumnEngine.query with the filter {column: value}: the rows of the ids
\* _filter_row_ids gives
ColQuery(m, table, column, value) ==
    {ColRow(m, table, r) : r \in ColFilterRowIds(m, table, column, value)}

NoRow == [none |-> TRUE]

\* ColumnEngine.get: _find_one with the filter {_id: key}
ColGet(m, table, key) ==
    LET rowIds == ColFilterRowIds(m, table, "_id", key)
    IN  IF rowIds = {} THEN NoRow ELSE ColRow(m, table, CHOOSE r \in rowIds : TRUE)

\* C24: after an update that matched row r, the query by each changed
\* column and its new value has r, and the query by the old value has it no
\* more, also for a column no row had before.
C24_ColUpdateVisible ==
    [][\A t \in Tables, k \in Keys, u \in Updates :
           (ColUpdate(t, k, u) /\ ColFilterRowIds(Mem(colStore, colIndexes), t, "_id", k) = {k}) =>
               \A col \in DOMAIN u :
                   LET old == ColRow(Mem(colStore, colIndexes), t, k)
                       new == Mem(colStore', colIndexes')
                   IN  /\ ColRow(new, t, k) \in ColQuery(new, t, col, u[col])
                       /\ (col \in DOMAIN old /\ old[col] # u[col]) =>
                              \A row \in ColQuery(new, t, col, old[col]) : row["_id"] # k]_vars

\* C25: after put(table, r, row), get(table, r) is exactly row with
\* _id = r: no column of a row stored under r before survives.
C25_ColPutOverwrites ==
    [][\A t \in Tables, k \in Keys, r \in Rows :
           ColPut(t, k, r) =>
               ColGet(Mem(colStore', colIndexes'), t, k) = r @@ ("_id" :> k)]_vars

----------------------------------------------------------------------------
(* engines/graph_engine.py *)

grOthers == <<docVars, kvVars, thrVars, snapVars, colVars, tsVars, profVars>>

\* graph names, node ids and edge ids handed to the public operations; the
\* empty string is the empty name
Graphs == {"g", ""}
NodeIds == {"a", "b", ""}
\* the (from, to) pairs given to add_edge
EdgeEnds == {<<"a", "b">>, <<"b", "a">>, <<"a", "">>}
EdgeIds == {"e", "f"}
\* node attributes, as put decodes them from its payload
NodeData == {"w" :> 1, "w" :> 2}
\* edge attributes given to add_edge: none, a number, or a list under "tags".
\* Each map holds one attribute at most, so the order of items() plays no part
EdgeData == {EmptyMap, "w" :> 1, "tags" :> <<1>>}

\* value.encode of JSON node data, and a payload that is not JSON
GrEncode(data) == [kind |-> "json", data |-> data]
NotJson == [kind |-> "garbage"]
\* the payloads given to put
NodeValues == {GrEncode(d) : d \in NodeData} \cup {NotJson}
\* json.loads(value.decode('utf-8'))
GrLoads(value) ==
    IF value.kind = "json" THEN [ok |-> TRUE, data |-> value.data] ELSE [ok |-> FALSE]

GrAddNodeOp(graph, nodeId, data) ==
    [operation |-> "ADD_NODE", graph |-> graph, node_id |-> nodeId, node_data |-> data]
GrAddEdgeOp(graph, edgeId, data) ==
    [operation |-> "ADD_EDGE", graph |-> graph, edge_id |-> edgeId, edge_data |-> data]
GrDeleteNodeOp(graph, nodeId) ==
    [operation |-> "DELETE_NODE", graph |-> graph, node_id |-> nodeId]
GrDeleteEdgeOp(graph, edgeId) ==
    [operation |-> "DELETE_EDGE", graph |-> graph, edge_id |-> edgeId]

\* the state of one graph: store[graph], the two indexes and the adjacency
GrState(nodes, edges, nidx, eidx, adj) ==
    [nodes |-> nodes, edges |-> edges, nidx |-> nidx, eidx |-> eidx, adj |-> adj]
\* how _apply ended, and the state it left
GrResult(g, outcome) == [g |-> g, outcome |-> outcome]

\* {'outgoing': set(), 'incoming': set()}
NoEdges == [outgoing |-> {}, incoming |-> {}]
\* a node id or name is truthy when it is not empty
Truthy(x) == x # ""

\* the fields of an edge that go to the edge index
EdgeAttrs(data) == (DOMAIN data) \ {"from", "to"}
\* a list is unhashable: using it as a dict key raises TypeError
EdgeUnhashable(data) == "tags" \in EdgeAttrs(data)

\* _add_to_node_index / _add_to_edge_index over the fields flds of data
GrIndexAdd(idx, data, flds, id) ==
    [f \in (DOMAIN idx) \cup flds |->
        IF f \in flds THEN PostingAdd(MapGet(idx, f, EmptyMap), data[f], id) ELSE idx[f]]
\* _remove_from_node_index / _remove_from_edge_index over the fields flds
GrIndexRemove(idx, data, flds, id) ==
    [f \in DOMAIN idx |->
        IF f \in flds THEN PostingDiscard(idx[f], data[f], id) ELSE idx[f]]

\* _apply, ADD_NODE
GrApplyAddNode(g0, nodeId, data) ==
    LET nidx1 == IF nodeId \in DOMAIN g0.nodes
                 THEN GrIndexRemove(g0.nidx, g0.nodes[nodeId], DOMAIN g0.nodes[nodeId], nodeId)
                 ELSE g0.nidx
    IN  GrResult(GrState(MapPut(g0.nodes, nodeId, data), g0.edges,
                         GrIndexAdd(nidx1, data, DOMAIN data, nodeId), g0.eidx,
                         SetDefault(g0.adj, nodeId, NoEdges)),
                 "ok")

\* adjacency[graph][node][side].discard(edge_id)
AdjDiscard(adj, node, side, edgeId) ==
    MapPut(adj, node, [adj[node] EXCEPT ![side] = @ \ {edgeId}])
\* adjacency[graph][node][side].add(edge_id)
AdjAdd(adj, node, side, edgeId) ==
    MapPut(adj, node, [adj[node] EXCEPT ![side] = @ \cup {edgeId}])

\* the setdefault of both endpoints and the two adds of lines 150-153
AdjLink(adj, from, to, edgeId) ==
    LET a1 == SetDefault(SetDefault(adj, from, NoEdges), to, NoEdges)
    IN  AdjAdd(AdjAdd(a1, from, "outgoing", edgeId), to, "incoming", edgeId)

\* _apply, ADD_EDGE, the steps in the order of the code: the old edge's index
\* entries, the old adjacency, the store, the index, the adjacency.  An
\* exception ends it where it is raised
GrApplyAddEdge(g0, edgeId, data) ==
    LET overwrite == edgeId \in DOMAIN g0.edges
        old == g0.edges[edgeId]
        oldLinked == overwrite /\ Truthy(old["from"]) /\ Truthy(old["to"])
        eidx1 == IF overwrite
                 THEN GrIndexRemove(g0.eidx, old, EdgeAttrs(old), edgeId)
                 ELSE g0.eidx
        adj1 == IF oldLinked /\ old["from"] \in DOMAIN g0.adj
                THEN AdjDiscard(g0.adj, old["from"], "outgoing", edgeId)
                ELSE g0.adj
        adj2 == IF oldLinked /\ old["to"] \in DOMAIN adj1
                THEN AdjDiscard(adj1, old["to"], "incoming", edgeId)
                ELSE adj1
        edges1 == MapPut(g0.edges, edgeId, data)
    IN  IF overwrite /\ EdgeUnhashable(old)
        THEN GrResult(g0, "TypeError")
        ELSE IF oldLinked /\ old["from"] \notin DOMAIN g0.adj
        THEN GrResult(GrState(g0.nodes, g0.edges, g0.nidx, eidx1, g0.adj), "KeyError")
        ELSE IF oldLinked /\ old["to"] \notin DOMAIN adj1
        THEN GrResult(GrState(g0.nodes, g0.edges, g0.nidx, eidx1, adj1), "KeyError")
        ELSE IF EdgeUnhashable(data)
        THEN GrResult(GrState(g0.nodes, edges1, g0.nidx,
                              [f \in (DOMAIN eidx1) \cup EdgeAttrs(data) |->
                                  MapGet(eidx1, f, EmptyMap)],
                              adj2),
                      "TypeError")
        ELSE GrResult(GrState(g0.nodes, edges1, g0.nidx,
                              GrIndexAdd(eidx1, data, EdgeAttrs(data), edgeId),
                              IF Truthy(data["from"]) /\ Truthy(data["to"])
                              THEN AdjLink(adj2, data["from"], data["to"], edgeId)
                              ELSE adj2),
                      "ok")

\* the edges of the set ids dropped from the store and from the edge index
RECURSIVE GrDropEdges(_, _, _)
GrDropEdges(edges, eidx, ids) ==
    IF ids = {} THEN [edges |-> edges, eidx |-> eidx]
    ELSE LET e == CHOOSE x \in ids : TRUE
         IN  GrDropEdges(MapDrop(edges, e),
                         GrIndexRemove(eidx, edges[e], EdgeAttrs(edges[e]), e),
                         ids \ {e})

\* _apply, DELETE_NODE: every outcome.  The connected edges are visited in
\* the order of a set; an edge with a list attribute raises TypeError when
\* its index entry is looked up, after any of the others were removed
GrApplyDeleteNode(g0, nodeId) ==
    LET connected == IF nodeId \in DOMAIN g0.adj
                     THEN g0.adj[nodeId].outgoing \cup g0.adj[nodeId].incoming
                     ELSE {}
        stored == connected \cap DOMAIN g0.edges
        raising == {e \in stored : EdgeUnhashable(g0.edges[e])}
        all == GrDropEdges(g0.edges, g0.eidx, stored)
    IN  IF raising # {}
        THEN {LET d == GrDropEdges(g0.edges, g0.eidx, S)
              IN  GrResult(GrState(g0.nodes, d.edges, g0.nidx, d.eidx, g0.adj), "TypeError")
              : S \in SUBSET (stored \ raising)}
        ELSE {GrResult(GrState(MapDrop(g0.nodes, nodeId), all.edges,
                               IF nodeId \in DOMAIN g0.nodes
                               THEN GrIndexRemove(g0.nidx, g0.nodes[nodeId],
                                                  DOMAIN g0.nodes[nodeId], nodeId)
                               ELSE g0.nidx,
                               all.eidx, MapDrop(g0.adj, nodeId)),
                       "ok")}

\* _apply, DELETE_EDGE
GrApplyDeleteEdge(g0, edgeId) ==
    LET data == g0.edges[edgeId]
        adj1 == IF Truthy(data["from"]) /\ data["from"] \in DOMAIN g0.adj
                THEN AdjDiscard(g0.adj, data["from"], "outgoing", edgeId)
                ELSE g0.adj
        adj2 == IF Truthy(data["to"]) /\ data["to"] \in DOMAIN adj1
                THEN AdjDiscard(adj1, data["to"], "incoming", edgeId)
                ELSE adj1
    IN  IF edgeId \notin DOMAIN g0.edges THEN GrResult(g0, "ok")
        ELSE IF EdgeUnhashable(data) THEN GrResult(g0, "TypeError")
        ELSE GrResult(GrState(g0.nodes, MapDrop(g0.edges, edgeId), g0.nidx,
                              GrIndexRemove(g0.eidx, data, EdgeAttrs(data), edgeId), adj2),
                      "ok")

\* the state of graph as _apply finds it after its four setdefault calls
GrOf(graph) ==
    GrState(MapGet(grStore, graph, [nodes |-> EmptyMap, edges |-> EmptyMap]).nodes,
            MapGet(grStore, graph, [nodes |-> EmptyMap, edges |-> EmptyMap]).edges,
            MapGet(grNodeIdx, graph, EmptyMap),
            MapGet(grEdgeIdx, graph, EmptyMap),
            MapGet(grAdj, graph, EmptyMap))

\* GraphEngine._apply: the outcomes it can have on the graph of op
GrApply(op) ==
    LET g0 == GrOf(op.graph)
    IN  CASE op.operation = "ADD_NODE" -> {GrApplyAddNode(g0, op.node_id, op.node_data)}
          [] op.operation = "ADD_EDGE" -> {GrApplyAddEdge(g0, op.edge_id, op.edge_data)}
          [] op.operation = "DELETE_NODE" -> GrApplyDeleteNode(g0, op.node_id)
          [] op.operation = "DELETE_EDGE" -> {GrApplyDeleteEdge(g0, op.edge_id)}

GrOutcome(name, outcome) == [op |-> name, outcome |-> outcome]
GrReturn(name, ret) == [op |-> name, outcome |-> "ok", ret |-> ret]

\* with self.lock: self._apply(op); self.wal.append(op) -- the append is
\* not reached when _apply raises
GrCommit(name, op, last) ==
    \E r \in GrApply(op) :
        /\ grStore' = MapPut(grStore, op.graph, [nodes |-> r.g.nodes, edges |-> r.g.edges])
        /\ grNodeIdx' = MapPut(grNodeIdx, op.graph, r.g.nidx)
        /\ grEdgeIdx' = MapPut(grEdgeIdx, op.graph, r.g.eidx)
        /\ grAdj' = MapPut(grAdj, op.graph, r.g.adj)
        /\ IF r.outcome = "ok"
           THEN grWalFile' = WalAppend(grWalFile, op) /\ grLast' = last
           ELSE grWalFile' = grWalFile /\ grLast' = GrOutcome(name, r.outcome)

\* _validate_graph_node passes
GrValid(graph, nodeId) == Truthy(graph) /\ Truthy(nodeId)

\* GraphEngine.put
GrPut(graph, key, value) ==
    /\ IF ~GrValid(graph, key) \/ ~GrLoads(value).ok
       THEN /\ grLast' = GrOutcome("put", "ValueError")
            /\ UNCHANGED <<grStore, grNodeIdx, grEdgeIdx, grAdj, grWalFile>>
       ELSE GrCommit("put", GrAddNodeOp(graph, key, GrLoads(value).data),
                     GrOutcome("put", "ok"))
    /\ grCalls' = grCalls + 1
    /\ UNCHANGED grOthers

\* GraphEngine.delete
GrDelete(graph, key) ==
    /\ IF ~GrValid(graph, key)
       THEN /\ grLast' = GrOutcome("delete", "ValueError")
            /\ UNCHANGED <<grStore, grNodeIdx, grEdgeIdx, grAdj, grWalFile>>
       ELSE IF key \notin DOMAIN GrOf(graph).nodes
       THEN /\ grLast' = GrReturn("delete", FALSE)
            /\ UNCHANGED <<grStore, grNodeIdx, grEdgeIdx, grAdj, grWalFile>>
       ELSE GrCommit("delete", GrDeleteNodeOp(graph, key), GrReturn("delete", TRUE))
    /\ grCalls' = grCalls + 1
    /\ UNCHANGED grOthers

\* GraphEngine.add_edge: no validation; from and to are set in edge_data
GrAddEdge(graph, edgeId, from, to, attrs) ==
    /\ GrCommit("add_edge",
                GrAddEdgeOp(graph, edgeId, attrs @@ ("from" :> from) @@ ("to" :> to)),
                GrOutcome("add_edge", "ok"))
    /\ grCalls' = grCalls + 1
    /\ UNCHANGED grOthers

\* GraphEngine.delete_edge: no validation
GrDeleteEdge(graph, edgeId) ==
    /\ IF edgeId \notin DOMAIN GrOf(graph).edges
       THEN /\ grLast' = GrReturn("delete_edge", FALSE)
            /\ UNCHANGED <<grStore, grNodeIdx, grEdgeIdx, grAdj, grWalFile>>
       ELSE GrCommit("delete_edge", GrDeleteEdgeOp(graph, edgeId),
                     GrReturn("delete_edge", TRUE))
    /\ grCalls' = grCalls + 1
    /\ UNCHANGED grOthers

GrCanWrite == grCalls < MaxGrCalls

NextGraph ==
    \/ \E g \in Graphs, n \in NodeIds, v \in NodeValues : GrCanWrite /\ GrPut(g, n, v)
    \/ \E g \in Graphs, n \in NodeIds : GrCanWrite /\ GrDelete(g, n)
    \/ \E g \in Graphs, e \in EdgeIds, ends \in EdgeEnds, d \in EdgeData :
           GrCanWrite /\ GrAddEdge(g, e, ends[1], ends[2], d)
    \/ \E g \in Graphs, e \in EdgeIds : GrCanWrite /\ GrDeleteEdge(g, e)

SpecGraph == Init /\ [][NextGraph]_vars

\* C17: a state-mutating public operation called with an empty namespace
\* name or an empty key raises ValueError (the engine's InvalidArgument) and
\* leaves the in-memory state and the WAL unchanged; here the Graph engine's
\* put, delete, add_edge and delete_edge.
C17_ValidationEverywhere ==
    [][(\/ \E g \in Graphs, n \in NodeIds, v \in NodeValues :
              (g = "" \/ n = "") /\ GrPut(g, n, v)
        \/ \E g \in Graphs, n \in NodeIds : (g = "" \/ n = "") /\ GrDelete(g, n)
        \/ \E e \in EdgeIds, ends \in EdgeEnds, d \in EdgeData :
              GrAddEdge("", e, ends[1], ends[2], d)
        \/ \E e \in EdgeIds : GrDeleteEdge("", e))
          => /\ grLast'.outcome = "ValueError"
             /\ UNCHANGED <<grStore, grNodeIdx, grEdgeIdx, grAdj, grWalFile>>]_vars

\* C13: every stored edge with non-empty endpoints has both its from and its
\* to among the keys of the graph's adjacency map.
C13_AdjacencyKeys ==
    \A g \in DOMAIN grStore : \A e \in DOMAIN grStore[g].edges :
        LET data == grStore[g].edges[e]
        IN  (Truthy(data["from"]) /\ Truthy(data["to"])) =>
                /\ data["from"] \in DOMAIN MapGet(grAdj, g, EmptyMap)
                /\ data["to"] \in DOMAIN MapGet(grAdj, g, EmptyMap)

----------------------------------------------------------------------------
(* The Graph engine's reads -- get_neighbors, the path query and the edge  *)
(* filter -- and the frame of a node deletion, over graphs built by put,   *)
(* add_edge, delete and delete_edge with well-formed ids.                   *)

\* the calls of one behaviour: of the node deletion's, of the reads'
MaxGrSteps == 6
MaxGrQSteps == 4
\* the limit of results in _query_path
MaxPaths == 10

QGraph == "g"
QPutNodes == {"a", "b"}
QNodes == {"a", "b", "c"}
QEnds == {<<"a", "b">>, <<"b", "c">>}
QNodeValue == GrEncode("w" :> 1)
Directions == {"out", "in", "both"}
\* the (start, end, max_depth) given to the path query
QPaths == {<<"a", "c", 3>>, <<"a", "c", 2>>, <<"a", "b", 2>>, <<"b", "b", 2>>}

\* one entry of the list get_neighbors returns
GrNeighbor(g0, edgeId, node, direction) ==
    [node_id |-> node, edge_id |-> edgeId, direction |-> direction,
     edge_data |-> g0.edges[edgeId]]

\* GraphEngine.get_neighbors: the ids come from the adjacency entry of the
\* node, the neighbour from the stored edge of that id; an id with no
\* stored edge gives {} and is skipped.  The entries, as a set
GrNeighbors(g0, nodeId, direction) ==
    IF nodeId \notin DOMAIN g0.adj THEN {}
    ELSE LET out == {GrNeighbor(g0, e, g0.edges[e]["to"], "outgoing") :
                        e \in {x \in g0.adj[nodeId].outgoing :
                                  x \in DOMAIN g0.edges /\ Truthy(g0.edges[x]["to"])}}
             in == {GrNeighbor(g0, e, g0.edges[e]["from"], "incoming") :
                       e \in {x \in g0.adj[nodeId].incoming :
                                 x \in DOMAIN g0.edges /\ Truthy(g0.edges[x]["from"])}}
         IN  (IF direction \in {"out", "both"} THEN out ELSE {})
                 \cup (IF direction \in {"in", "both"} THEN in ELSE {})

InSeq(x, s) == \E i \in DOMAIN s : s[i] = x

\* a search that gives up one node short of the depth
GrStopEarly(path, maxDepth) == Len(path) + 1 >= maxDepth
\* the branch of the search is not extended: len(path) >= max_depth
GrDepthReached(path, maxDepth) == Len(path) >= maxDepth

\* the inner loop of _query_path over the outgoing ids of the current node:
\* the queue entries it appends.  The ids are taken in one order of the set
RECURSIVE GrExtend(_, _, _)
GrExtend(g0, path, ids) ==
    IF ids = {} THEN <<>>
    ELSE LET e == CHOOSE x \in ids : TRUE
             next == IF e \in DOMAIN g0.edges THEN g0.edges[e]["to"] ELSE ""
         IN  (IF Truthy(next) /\ ~InSeq(next, path) THEN <<Append(path, next)>> ELSE <<>>)
                 \o GrExtend(g0, path, ids \ {e})

\* the while loop of _query_path: queue holds the paths to look at, the
\* current node being the last of each
RECURSIVE GrBfs(_, _, _, _, _)
GrBfs(g0, end, maxDepth, queue, paths) ==
    IF queue = <<>> \/ Len(paths) >= MaxPaths THEN paths
    ELSE LET path == Head(queue)
             current == path[Len(path)]
         IN  IF current = end
             THEN GrBfs(g0, end, maxDepth, Tail(queue), Append(paths, path))
             ELSE IF GrDepthReached(path, maxDepth)
             THEN GrBfs(g0, end, maxDepth, Tail(queue), paths)
             ELSE IF current \in DOMAIN g0.adj
             THEN GrBfs(g0, end, maxDepth,
                        Tail(queue) \o GrExtend(g0, path, g0.adj[current].outgoing), paths)
             ELSE GrBfs(g0, end, maxDepth, Tail(queue), paths)

\* GraphEngine._query_path: the paths in the order they are returned
GrQueryPath(g0, start, end, maxDepth) ==
    IF ~Truthy(start) \/ ~Truthy(end) THEN <<>>
    ELSE GrBfs(g0, end, maxDepth, <<<<start>>>>, <<>>)

\* GraphEngine._query_edges with a filter of one equality {field: value}:
\* the ids of the edge index entry that are stored, each as a row with _id
GrQueryEdges(g0, field, value) ==
    {("_id" :> e) @@ g0.edges[e] :
        e \in {x \in MapGet(MapGet(g0.eidx, field, EmptyMap), value, {}) :
                  x \in DOMAIN g0.edges}}

\* a read leaves everything but the record of the last call
GrRead(last) ==
    /\ grLast' = last
    /\ UNCHANGED <<grStore, grNodeIdx, grEdgeIdx, grAdj, grWalFile, grCalls>>
    /\ UNCHANGED grOthers

GrGetNeighbors(graph, nodeId, direction) ==
    GrRead(GrReturn("get_neighbors", GrNeighbors(GrOf(graph), nodeId, direction)))

\* GraphEngine.query with {'path': {start, end, max_depth}}
GrPathQuery(graph, start, end, maxDepth) ==
    GrRead(GrReturn("query_path", GrQueryPath(GrOf(graph), start, end, maxDepth)))

\* GraphEngine.query with {'edge_filter': {field: value}}
GrEdgeQuery(graph, field, value) ==
    GrRead(GrReturn("query_edges", GrQueryEdges(GrOf(graph), field, value)))

GrCanStep == grCalls < MaxGrSteps
GrCanQStep == grCalls < MaxGrQSteps

\* the writes on two nodes and one edge id
NextGraphDel ==
    \/ \E n \in QPutNodes : GrCanStep /\ GrPut(QGraph, n, QNodeValue)
    \/ \E n \in QPutNodes : GrCanStep /\ GrDelete(QGraph, n)
    \/ \E ends \in QEnds : GrCanStep /\ GrAddEdge(QGraph, "e", ends[1], ends[2], EmptyMap)
    \/ GrCanStep /\ GrDeleteEdge(QGraph, "e")

SpecGraphDel == Init /\ [][NextGraphDel]_vars

\* the writes on one node and two edge ids, and the reads
NextGraphQ ==
    \/ GrCanQStep /\ GrPut(QGraph, "b", QNodeValue)
    \/ GrCanQStep /\ GrDelete(QGraph, "b")
    \/ \E e \in EdgeIds, ends \in QEnds :
           GrCanQStep /\ GrAddEdge(QGraph, e, ends[1], ends[2], EmptyMap)
    \/ \E e \in EdgeIds : GrCanQStep /\ GrDeleteEdge(QGraph, e)
    \/ \E n \in QPutNodes, d \in Directions : GrGetNeighbors(QGraph, n, d)
    \/ \E q \in QPaths : GrPathQuery(QGraph, q[1], q[2], q[3])
    \/ \E f \in {"from", "to"}, n \in QNodes : GrEdgeQuery(QGraph, f, n)

SpecGraphQ == Init /\ [][NextGraphQ]_vars

\* the edges of the graph as stored
QEdges == MapGet(grStore, QGraph, [nodes |-> EmptyMap, edges |-> EmptyMap]).edges

\* C26: delete of an existing node removes from the store every edge whose
\* from or to is the node, and the node's adjacency entry, and removes no
\* edge whose from and to both differ from the node.
C26_DeleteNodeFrame ==
    [][\A n \in QPutNodes :
           (GrDelete(QGraph, n) /\ n \in DOMAIN GrOf(QGraph).nodes) =>
               /\ n \notin DOMAIN grAdj'[QGraph]
               /\ \A e \in DOMAIN QEdges :
                      IF QEdges[e]["from"] = n \/ QEdges[e]["to"] = n
                      THEN e \notin DOMAIN QEdges'
                      ELSE e \in DOMAIN QEdges' /\ QEdges'[e] = QEdges[e]]_vars

\* C27: get_neighbors(graph, n, d) returns one entry for each stored edge
\* with from = n when d is out or both (the neighbour its to), one for each
\* stored edge with to = n when d is in or both (the neighbour its from),
\* and no other entry.
C27_NeighborsExact ==
    [][\A n \in QPutNodes, d \in Directions :
           GrGetNeighbors(QGraph, n, d) =>
               grLast'.ret =
                   {[node_id |-> QEdges[e]["to"], edge_id |-> e, direction |-> "outgoing",
                     edge_data |-> QEdges[e]] :
                        e \in {x \in DOMAIN QEdges :
                                  d \in {"out", "both"} /\ QEdges[x]["from"] = n}}
                   \cup
                   {[node_id |-> QEdges[e]["from"], edge_id |-> e, direction |-> "incoming",
                     edge_data |-> QEdges[e]] :
                        e \in {x \in DOMAIN QEdges :
                                  d \in {"in", "both"} /\ QEdges[x]["to"] = n}}]_vars

\* a stored edge goes from u to v
Joined(u, v) == \E e \in DOMAIN QEdges : QEdges[e]["from"] = u /\ QEdges[e]["to"] = v

\* C28: every path the path query returns begins with start, ends with end,
\* has no node twice and at most max_depth nodes, and each consecutive pair
\* is joined by a stored edge; at most ten paths are returned.
C28_PathSound ==
    [][\A q \in QPaths :
           GrPathQuery(QGraph, q[1], q[2], q[3]) =>
               /\ Len(grLast'.ret) <= 10
               /\ \A i \in DOMAIN grLast'.ret :
                      LET p == grLast'.ret[i]
                      IN  /\ p[1] = q[1]
                          /\ p[Len(p)] = q[2]
                          /\ Len(p) <= q[3]
                          /\ \A j, k \in DOMAIN p : j # k => p[j] # p[k]
                          /\ \A j \in 1..(Len(p) - 1) : Joined(p[j], p[j + 1])]_vars

\* the simple paths of at most three nodes over the node ids
SimplePaths ==
    {p \in UNION {[1..n -> QNodes] : n \in 1..3} :
        \A j, k \in DOMAIN p : j # k => p[j] # p[k]}

C30_EdgeFilterExact ==
    [][\A f \in {"from", "to"}, n \in QNodes :
           GrEdgeQuery(QGraph, f, n) =>
               grLast'.ret = {("_id" :> e) @@ QEdges[e] :
                                 e \in {x \in DOMAIN QEdges : QEdges[x][f] = n}}]_vars

----------------------------------------------------------------------------
(* engines/timeseries_engine.py *)

tsOthers == <<docVars, kvVars, thrVars, snapVars, colVars, grVars, profVars>>

\* series names, the timestamps given to add_point and the keys given to put
\* and delete; the empty string is the empty name and 0 the empty key
Series == {"s", ""}
Timestamps == {1, 2}
PointKeys == {0, 1}
\* the tags given to add_point: tag values are strings, on which str() is
\* the identity
TagMaps == {("host" :> "h1") @@ ("dc" :> "d1"), "host" :> "h2"}
\* the point data put decodes from its payload
PointData == {"temp" :> 1}
\* the tag filters of query, as items() walks them
TagFilters == {<<<<"host", "h1">>>>, <<<<"host", "h1">>, <<"dc", "d2">>>>}

TsInsertOp(series, ts, point) ==
    [operation |-> "INSERT_POINT", series |-> series, timestamp |-> ts, point_data |-> point]
TsMetadataOp(series, metadata) ==
    [operation |-> "UPDATE_METADATA", series |-> series, metadata |-> metadata]
TsDeletePointOp(series, ts) ==
    [operation |-> "DELETE_POINT", series |-> series, timestamp |-> ts]
TsDeleteSeriesOp(series) == [operation |-> "DELETE_SERIES", series |-> series]

\* the engine's four maps
TsMem(store, tidx, gidx, vidx) == [store |-> store, tidx |-> tidx, gidx |-> gidx, vidx |-> vidx]
\* {'points': {}, 'metadata': {}}
NoPoints == [points |-> EmptyMap, metadata |-> EmptyMap]

\* point_data.get('tags', {})
TsTags(point) == MapGet(point, "tags", EmptyMap)
\* the fields with isinstance(value, (int, float)) other than timestamp and
\* tags: in the points of this model, value and temp
TsValueFields(point) == (DOMAIN point) \cap {"value", "temp"}

\* list.sort() of a list of timestamps
RECURSIVE TsSort(_)
TsSort(seq) ==
    IF seq = <<>> THEN <<>>
    ELSE LET i == CHOOSE j \in DOMAIN seq : \A k \in DOMAIN seq : seq[j] <= seq[k]
         IN  <<seq[i]>> \o TsSort(SubSeq(seq, 1, i - 1) \o SubSeq(seq, i + 1, Len(seq)))

\* list.remove(x): the first occurrence goes; ValueError is swallowed
TsListRemove(seq, x) ==
    IF \E j \in DOMAIN seq : seq[j] = x
    THEN LET i == CHOOSE j \in DOMAIN seq : seq[j] = x /\ \A k \in 1..(j - 1) : seq[k] # x
         IN  SubSeq(seq, 1, i - 1) \o SubSeq(seq, i + 1, Len(seq))
    ELSE seq

\* the time index loses the timestamp as it is
KeepTimestamp(tidx, ts) == tidx

\* _remove_from_indexes, the time index
TsTimeDiscard(tidx, ts) ==
    IF ts \in DOMAIN tidx
    THEN IF tidx[ts] \ {ts} = {} THEN MapDrop(tidx, ts) ELSE MapPut(tidx, ts, tidx[ts] \ {ts})
    ELSE tidx

\* tag_idx.get(value, set()).discard(ts), and the value is popped when the
\* set is empty
TsTagDiscard(tagIdx, val, ts) ==
    IF MapGet(tagIdx, val, {}) \ {ts} = {} THEN MapDrop(tagIdx, val)
    ELSE MapPut(tagIdx, val, tagIdx[val] \ {ts})

\* _add_to_indexes on the indexes of one series
TsAddToIndexes(x, ts, point) ==
    [tidx |-> PostingAdd(x.tidx, ts, ts),
     gidx |-> [tag \in (DOMAIN x.gidx) \cup (DOMAIN TsTags(point)) |->
                  IF tag \in DOMAIN TsTags(point)
                  THEN PostingAdd(MapGet(x.gidx, tag, EmptyMap), TsTags(point)[tag], ts)
                  ELSE x.gidx[tag]],
     vidx |-> [f \in (DOMAIN x.vidx) \cup TsValueFields(point) |->
                  IF f \in TsValueFields(point)
                  THEN TsSort(Append(MapGet(x.vidx, f, <<>>), ts))
                  ELSE x.vidx[f]]]

\* _remove_from_indexes on the indexes of one series
TsRemoveFromIndexes(x, ts, point) ==
    [tidx |-> TsTimeDiscard(x.tidx, ts),
     gidx |-> [tag \in DOMAIN x.gidx |->
                  IF tag \in DOMAIN TsTags(point)
                  THEN TsTagDiscard(x.gidx[tag], TsTags(point)[tag], ts)
                  ELSE x.gidx[tag]],
     vidx |-> [f \in DOMAIN x.vidx |->
                  IF f \in TsValueFields(point) THEN TsListRemove(x.vidx[f], ts)
                  ELSE x.vidx[f]]]

\* the indexes of one series, empty when the series has none
TsIdxOf(m, series) ==
    [tidx |-> MapGet(m.tidx, series, EmptyMap),
     gidx |-> MapGet(m.gidx, series, EmptyMap),
     vidx |-> MapGet(m.vidx, series, EmptyMap)]

\* the engine's maps with the series set to the points, metadata and indexes
TsWith(m, series, points, metadata, x) ==
    TsMem(MapPut(m.store, series, [points |-> points, metadata |-> metadata]),
          MapPut(m.tidx, series, x.tidx),
          MapPut(m.gidx, series, x.gidx),
          MapPut(m.vidx, series, x.vidx))

\* TimeSeriesEngine._apply
TsApply(m, op) ==
    LET series == op.series
        s0 == MapGet(m.store, series, NoPoints)
        x0 == TsIdxOf(m, series)
    IN  CASE op.operation = "INSERT_POINT" ->
               LET ts == op.timestamp
                   x1 == IF ts \in DOMAIN s0.points
                         THEN TsRemoveFromIndexes(x0, ts, s0.points[ts])
                         ELSE x0
               IN  TsWith(m, series, MapPut(s0.points, ts, op.point_data), s0.metadata,
                          TsAddToIndexes(x1, ts, op.point_data))
          [] op.operation = "UPDATE_METADATA" ->
               TsWith(m, series, s0.points, op.metadata @@ s0.metadata, x0)
          [] op.operation = "DELETE_POINT" ->
               IF op.timestamp \in DOMAIN s0.points
               THEN TsWith(m, series, MapDrop(s0.points, op.timestamp), s0.metadata,
                           TsRemoveFromIndexes(x0, op.timestamp, s0.points[op.timestamp]))
               ELSE TsWith(m, series, s0.points, s0.metadata, x0)
          [] op.operation = "DELETE_SERIES" ->
               TsMem(MapDrop(m.store, series), MapDrop(m.tidx, series),
                     MapDrop(m.gidx, series), MapDrop(m.vidx, series))

\* the loop of startup over the replayed records
RECURSIVE TsApplyAll(_, _)
TsApplyAll(m, ops) ==
    IF ops = <<>> THEN m ELSE TsApplyAll(TsApply(m, Head(ops)), Tail(ops))

\* the points tss of the series taken out of the store and the indexes, one
\* by one
RECURSIVE TsEvict(_, _, _)
TsEvict(m, series, tss) ==
    IF tss = {} THEN m
    ELSE LET ts == CHOOSE t \in tss : TRUE
             s0 == m.store[series]
         IN  TsEvict(TsWith(m, series, MapDrop(s0.points, ts), s0.metadata,
                            TsRemoveFromIndexes(TsIdxOf(m, series), ts, s0.points[ts])),
                     series, tss \ {ts})

\* a cleanup that spares the points of the last second before the cutoff
RECURSIVE TsCleanupLate(_, _, _)
TsCleanupLate(m, cutoff, names) ==
    IF names = {} THEN m
    ELSE LET series == CHOOSE n \in names : TRUE
         IN  TsCleanupLate(TsEvict(m, series,
                                   {ts \in DOMAIN m.store[series].points : ts < cutoff - 1}),
                           cutoff, names \ {series})

\* _cleanup_old_data over the series names
RECURSIVE TsCleanup(_, _, _)
TsCleanup(m, cutoff, names) ==
    IF names = {} THEN m
    ELSE LET series == CHOOSE n \in names : TRUE
         IN  TsCleanup(TsEvict(m, series,
                               {ts \in DOMAIN m.store[series].points : ts < cutoff}),
                       cutoff, names \ {series})

\* startup's loop over the points of one series
RECURSIVE TsIndexPoints(_, _, _)
TsIndexPoints(x, points, tss) ==
    IF tss = {} THEN x
    ELSE LET ts == CHOOSE t \in tss : TRUE
         IN  TsIndexPoints(TsAddToIndexes(x, ts, points[ts]), points, tss \ {ts})

\* startup's rebuild of the three indexes from the store
TsBuildIndexes(store) ==
    LET x(series) == TsIndexPoints([tidx |-> EmptyMap, gidx |-> EmptyMap, vidx |-> EmptyMap],
                                   store[series].points, DOMAIN store[series].points)
    IN  TsMem(store,
              [series \in DOMAIN store |-> x(series).tidx],
              [series \in DOMAIN store |-> x(series).gidx],
              [series \in DOMAIN store |-> x(series).vidx])

\* the engine's maps as they stand
TsNow == TsMem(tsStore, tsTimeIdx, tsTagIdx, tsValIdx)

\* the engine's maps become m
TsSet(m) ==
    /\ tsStore' = m.store
    /\ tsTimeIdx' = m.tidx
    /\ tsTagIdx' = m.gidx
    /\ tsValIdx' = m.vidx

TsOutcome(name, outcome) == [op |-> name, outcome |-> outcome]
TsReturn(name, ret) == [op |-> name, outcome |-> "ok", ret |-> ret]

\* TimeSeriesEngine.startup (and recover, which calls it)
TsStartup ==
    LET snap == SnapLoad(tsFs, "latest")
        rep == WalReplay(tsWalFile)
        m1 == TsApplyAll(TsMem(snap.data, tsTimeIdx, tsTagIdx, tsValIdx), rep.ops)
        m2 == TsBuildIndexes(m1.store)
    IN  /\ IF snap.ok /\ rep.ok
           THEN /\ TsSet(TsCleanup(m2, tsCutoff, DOMAIN m2.store))
                /\ tsWalFile' = WalRotate(tsWalFile)
                /\ tsWalOpen' = TRUE
                /\ tsLast' = TsOutcome("startup", "ok")
           ELSE /\ tsStore' = IF snap.ok THEN snap.data ELSE tsStore
                /\ tsLast' = TsOutcome("startup", "CorruptState")
                /\ UNCHANGED <<tsTimeIdx, tsTagIdx, tsValIdx, tsWalFile, tsWalOpen>>
        /\ tsCalls' = tsCalls + 1
        /\ UNCHANGED <<tsFs, tsCutoff>>
        /\ UNCHANGED tsOthers

\* TimeSeriesEngine.shutdown
TsShutdown ==
    /\ tsFs' = SnapCreate(tsFs, "latest", tsStore)
    /\ tsWalOpen' = FALSE
    /\ tsLast' = TsOutcome("shutdown", "ok")
    /\ tsCalls' = tsCalls + 1
    /\ UNCHANGED <<tsStore, tsTimeIdx, tsTagIdx, tsValIdx, tsWalFile, tsCutoff>>
    /\ UNCHANGED tsOthers

\* with self.lock: self._apply(op); self.wal.append(op), and add_point's
\* _cleanup_old_data after it; the append on a closed WAL raises and the
\* rest is not reached
TsCommit(name, op, last, cleanup) ==
    LET m == TsApply(TsNow, op)
    IN  /\ IF tsWalOpen
           THEN /\ TsSet(IF cleanup THEN TsCleanup(m, tsCutoff, DOMAIN m.store) ELSE m)
                /\ tsWalFile' = WalAppend(tsWalFile, op)
                /\ tsLast' = last
           ELSE /\ TsSet(m)
                /\ tsWalFile' = tsWalFile
                /\ tsLast' = TsOutcome(name, "AttributeError")
        /\ tsCalls' = tsCalls + 1
        /\ UNCHANGED <<tsWalOpen, tsFs, tsCutoff>>
        /\ UNCHANGED tsOthers

\* a call that returns or raises with nothing changed
TsRefuse(last) ==
    /\ tsLast' = last
    /\ tsCalls' = tsCalls + 1
    /\ UNCHANGED <<tsStore, tsTimeIdx, tsTagIdx, tsValIdx, tsWalFile, tsWalOpen, tsFs, tsCutoff>>
    /\ UNCHANGED tsOthers

\* _validate_series_point passes
TsValid(series, pointId) == series # "" /\ pointId # 0

\* TimeSeriesEngine.add_point: no validation
TsAddPoint(series, ts, value, tags) ==
    TsCommit("add_point",
             TsInsertOp(series, ts,
                        ("timestamp" :> ts) @@ ("value" :> value) @@ ("tags" :> tags)),
             TsOutcome("add_point", "ok"), TRUE)

\* TimeSeriesEngine.put
TsPut(series, key, value) ==
    IF ~TsValid(series, key) \/ ~GrLoads(value).ok
    THEN TsRefuse(TsOutcome("put", "ValueError"))
    ELSE TsCommit("put",
                  TsInsertOp(series, key, ("timestamp" :> key) @@ GrLoads(value).data),
                  TsOutcome("put", "ok"), FALSE)

\* TimeSeriesEngine.delete
TsDelete(series, key) ==
    IF ~TsValid(series, key) THEN TsRefuse(TsOutcome("delete", "ValueError"))
    ELSE IF key \notin DOMAIN MapGet(tsStore, series, NoPoints).points
    THEN TsRefuse(TsReturn("delete", FALSE))
    ELSE TsCommit("delete", TsDeletePointOp(series, key), TsReturn("delete", TRUE), FALSE)

\* TimeSeriesEngine.update_series_metadata: no validation
TsUpdateMetadata(series, metadata) ==
    TsCommit("update_series_metadata", TsMetadataOp(series, metadata),
             TsOutcome("update_series_metadata", "ok"), FALSE)

\* TimeSeriesEngine.delete_series: no validation
TsDeleteSeries(series) ==
    IF series \notin DOMAIN tsStore THEN TsRefuse(TsReturn("delete_series", FALSE))
    ELSE TsCommit("delete_series", TsDeleteSeriesOp(series),
                  TsReturn("delete_series", TRUE), FALSE)

\* the posting the filter item looks up: tag_indexes.get(series, {})
\* .get(tag, {}).get(value, set())
TsPosting(gidx, series, item) ==
    MapGet(MapGet(MapGet(gidx, series, EmptyMap), item[1], EmptyMap), item[2], {})

\* the timestamps left by the loop of _query_by_tags over the filter
RECURSIVE TsMatching(_, _, _)
TsMatching(gidx, series, filt) ==
    IF Len(filt) = 1 THEN TsPosting(gidx, series, filt[1])
    ELSE TsMatching(gidx, series, SubSeq(filt, 1, Len(filt) - 1))
             \cap TsPosting(gidx, series, filt[Len(filt)])

\* TimeSeriesEngine.query with {'tags': filt}.  matching_timestamps is the
\* set object of the first item's posting, and &= intersects it in place:
\* a filter of two items and more rewrites that posting in the index
TsQueryTags(series, filt) ==
    LET first == filt[1]
        inIndex == /\ series \in DOMAIN tsTagIdx
                   /\ first[1] \in DOMAIN tsTagIdx[series]
                   /\ first[2] \in DOMAIN tsTagIdx[series][first[1]]
        matching == TsMatching(tsTagIdx, series, filt)
        points == MapGet(tsStore, series, NoPoints).points
    IN  /\ tsTagIdx' = IF inIndex /\ Len(filt) > 1
                       THEN MapPut(tsTagIdx, series,
                                MapPut(tsTagIdx[series], first[1],
                                    MapPut(tsTagIdx[series][first[1]], first[2], matching)))
                       ELSE tsTagIdx
        /\ tsLast' = TsReturn("query", {points[ts] : ts \in matching \cap DOMAIN points})
        /\ tsCalls' = tsCalls + 1
        /\ UNCHANGED <<tsStore, tsTimeIdx, tsValIdx, tsWalFile, tsWalOpen, tsFs, tsCutoff>>
        /\ UNCHANGED tsOthers

\* the clock moves on: the cutoff of the next cleanup is one later
TsTick ==
    /\ tsCutoff < MaxCutoff
    /\ tsCutoff' = tsCutoff + 1
    /\ UNCHANGED <<tsStore, tsTimeIdx, tsTagIdx, tsValIdx, tsWalFile, tsWalOpen, tsFs,
                   tsLast, tsCalls>>
    /\ UNCHANGED tsOthers

TsCanCall == tsCalls < MaxTsCalls

NextTS ==
    \/ TsCanCall /\ TsStartup
    \/ TsCanCall /\ TsShutdown
    \/ \E s \in Series, ts \in Timestamps, tags \in TagMaps :
           TsCanCall /\ TsAddPoint(s, ts, 1, tags)
    \/ \E s \in Series, k \in PointKeys, v \in {GrEncode(d) : d \in PointData} \cup {NotJson} :
           TsCanCall /\ TsPut(s, k, v)
    \/ \E s \in Series, k \in PointKeys : TsCanCall /\ TsDelete(s, k)
    \/ \E s \in Series : TsCanCall /\ TsUpdateMetadata(s, "unit" :> "C")
    \/ \E s \in Series : TsCanCall /\ TsDeleteSeries(s)
    \/ \E s \in Series, filt \in TagFilters : TsCanCall /\ TsQueryTags(s, filt)
    \/ TsTick

SpecTS == Init /\ [][NextTS]_vars

\* the timestamps the tag index of the series refers to
TsTagRefs(series) ==
    UNION {UNION {tsTagIdx[series][tag][val] : val \in DOMAIN tsTagIdx[series][tag]}
           : tag \in DOMAIN tsTagIdx[series]}
\* the timestamps the value index of the series refers to
TsValueRefs(series) ==
    UNION {{tsValIdx[series][f][i] : i \in DOMAIN tsValIdx[series][f]}
           : f \in DOMAIN tsValIdx[series]}

\* C14: for every series the key set of points equals the timestamp set of
\* the time index, and every timestamp a tag-index posting or a value-index
\* list refers to is the timestamp of an existing point.
C14_TsIndexInvariant ==
    /\ \A series \in (DOMAIN tsStore) \cup (DOMAIN tsTimeIdx) :
           DOMAIN MapGet(tsStore, series, NoPoints).points
               = DOMAIN MapGet(tsTimeIdx, series, EmptyMap)
    /\ \A series \in DOMAIN tsTagIdx :
           TsTagRefs(series) \subseteq DOMAIN MapGet(tsStore, series, NoPoints).points
    /\ \A series \in DOMAIN tsValIdx :
           TsValueRefs(series) \subseteq DOMAIN MapGet(tsStore, series, NoPoints).points

\* a query of two tags has emptied a posting of a point that is still stored,
\* next to a point that the indexes hold in full
C14_Witness ==
    /\ tsLast.op = "query"
    /\ "s" \in DOMAIN tsStore
    /\ \E ts \in DOMAIN tsStore["s"].points :
           /\ "host" \in DOMAIN TsTags(tsStore["s"].points[ts])
           /\ ts \notin TsPosting(tsTagIdx, "s", <<"host", TsTags(tsStore["s"].points[ts])["host"]>>)
    /\ TsValueRefs("s") # {}

\* the points of the series whose tags hold every pair of the filter
TsTagged(series, filt) ==
    LET points == MapGet(tsStore, series, NoPoints).points
    IN  {points[ts] : ts \in {t \in DOMAIN points :
                                 \A i \in DOMAIN filt :
                                     /\ filt[i][1] \in DOMAIN TsTags(points[t])
                                     /\ TsTags(points[t])[filt[i][1]] = filt[i][2]}}

\* C31: whatever queries ran before, the query by tags returns exactly the
\* stored points of the series whose tags hold every pair of the filter.
C31_TagQueryExact ==
    [][\A s \in Series, filt \in TagFilters :
           TsQueryTags(s, filt) => tsLast'.ret = TsTagged(s, filt)]_vars

\* C40: a read leaves the store and the time, tag and value indexes as
\* they were; here the query by tags, of one pair and of several.
C40_ReadsAreReadOnly ==
    [][\A s \in Series, filt \in TagFilters :
           TsQueryTags(s, filt) => UNCHANGED <<tsStore, tsTimeIdx, tsTagIdx, tsValIdx>>]_vars

\* the timestamps the time index of the series refers to
TsTimeRefs(series) ==
    (DOMAIN tsTimeIdx[series]) \cup UNION {tsTimeIdx[series][ts] : ts \in DOMAIN tsTimeIdx[series]}

\* C32: when startup completes and whenever add_point returns, no series
\* holds a point older than the cutoff, neither in its points nor in the
\* time, tag or value index; and add_point evicts no point that is not
\* older than the cutoff.
C32_Retention ==
    [][(tsCalls' # tsCalls /\ tsLast' \in {TsOutcome("startup", "ok"), TsOutcome("add_point", "ok")})
          => /\ \A series \in DOMAIN tsStore' :
                    \A ts \in DOMAIN tsStore'[series].points : ts >= tsCutoff
             /\ \A series \in DOMAIN tsTimeIdx' : \A ts \in TsTimeRefs(series)' : ts >= tsCutoff
             /\ \A series \in DOMAIN tsTagIdx' : \A ts \in TsTagRefs(series)' : ts >= tsCutoff
             /\ \A series \in DOMAIN tsValIdx' : \A ts \in TsValueRefs(series)' : ts >= tsCutoff
             /\ tsLast'.op = "add_point" =>
                    \A series \in DOMAIN tsStore : \A ts \in DOMAIN tsStore[series].points :
                        ts >= tsCutoff =>
                            /\ series \in DOMAIN tsStore'
                            /\ ts \in DOMAIN tsStore'[series].points]_vars

\* add_point has returned after the clock passed a point it stored before:
\* the older point is in the WAL and no longer in the series, the newer is
C32_Witness ==
    /\ tsLast = TsOutcome("add_point", "ok")
    /\ tsCutoff = 2
    /\ WalReplay(tsWalFile).ok
    /\ \E i \in DOMAIN WalReplay(tsWalFile).ops :
           /\ WalReplay(tsWalFile).ops[i].series = "s"
           /\ WalReplay(tsWalFile).ops[i].timestamp = 1
    /\ "s" \in DOMAIN tsStore
    /\ DOMAIN tsStore["s"].points = {2}

----------------------------------------------------------------------------
(* The Time-series engine's aggregation query over the points of one       *)
(* series, stored by add_point at a start time and every minute after it.  *)

MaxStart == 10
\* the start times of the scenario, half a minute apart
StartTimes == {30 * k : k \in 0..MaxStart}
AggSeries == "temperature"
AggTags == "sensor" :> "temp1"
AggPoints == 10
\* the timestamp and the value of the i-th point
AggTime(t, i) == t + 60 * i
AggValue(i) == 20 + i

\* sorted(keys)
RECURSIVE TsSorted(_)
TsSorted(S) ==
    IF S = {} THEN <<>>
    ELSE LET x == CHOOSE y \in S : \A z \in S : y <= z
         IN  <<x>> \o TsSorted(S \ {x})

\* _parse_interval of the number n followed by the unit letter
ParseInterval(n, unit) ==
    CASE unit = "s" -> n
      [] unit = "m" -> n * 60
      [] unit = "h" -> n * 3600
      [] unit = "d" -> n * 86400
      [] OTHER -> 3600

\* _query_time_range: the points of the time index's timestamps in order;
\* a bound of 0 or None is no bound
TsQueryTimeRange(m, series, start, end) ==
    LET points == MapGet(m.store, series, NoPoints).points
        keys == IF series \in DOMAIN m.tidx THEN DOMAIN m.tidx[series] ELSE DOMAIN points
        kept == {ts \in keys : /\ ~(start # 0 /\ ts < start)
                               /\ ~(end # 0 /\ ts > end)
                               /\ ts \in DOMAIN points}
        order == TsSorted(kept)
    IN  [i \in DOMAIN order |-> points[order[i]]]

RECURSIVE SeqSum(_)
SeqSum(seq) == IF seq = <<>> THEN 0 ELSE Head(seq) + SeqSum(Tail(seq))

\* the values of the points whose timestamp falls into the bucket, in order
RECURSIVE BucketValues(_, _, _, _)
BucketValues(points, field, seconds, bucket) ==
    IF points = <<>> THEN <<>>
    ELSE (IF (Head(points)["timestamp"] \div seconds) * seconds = bucket
          THEN <<MapGet(Head(points), field, 0)>> ELSE <<>>)
             \o BucketValues(Tail(points), field, seconds, bucket)

\* sum(values) / len(values), as the fraction it is
Avg(values) == [num |-> SeqSum(values), den |-> Len(values)]

\* _query_aggregation with the function avg: one result for each bucket
\* start, in ascending order
TsQueryAggregation(m, series, n, unit, start, end, field) ==
    LET seconds == ParseInterval(n, unit)
        points == TsQueryTimeRange(m, series, start, end)
        starts == TsSorted({(points[i]["timestamp"] \div seconds) * seconds : i \in DOMAIN points})
    IN  [b \in DOMAIN starts |->
            LET values == BucketValues(points, field, seconds, starts[b])
            IN  [timestamp |-> starts[b], value |-> Avg(values), count |-> Len(values)]]

\* the stored timestamps of the series
AggStored == DOMAIN MapGet(tsStore, AggSeries, NoPoints).points

\* the loop of the scenario: add_point of the i-th point after the first i
AggAddPoint(t, i) ==
    /\ AggStored = {AggTime(t, j) : j \in 0..(i - 1)}
    /\ TsAddPoint(AggSeries, AggTime(t, i), AggValue(i), AggTags)

\* TimeSeriesEngine.query with {'aggregation': {interval: '5m', start: t,
\* end: t + 600, function: 'avg', field: 'value'}}
TsAggQuery(t) ==
    /\ tsLast' = TsReturn("query", TsQueryAggregation(TsNow, AggSeries, 5, "m", t, t + 600, "value"))
    /\ tsCalls' = tsCalls + 1
    /\ UNCHANGED <<tsStore, tsTimeIdx, tsTagIdx, tsValIdx, tsWalFile, tsWalOpen, tsFs, tsCutoff>>
    /\ UNCHANGED tsOthers

NextTsAgg ==
    \/ \E t \in StartTimes, i \in 0..(AggPoints - 1) : AggAddPoint(t, i)
    \/ \E t \in StartTimes :
           /\ AggStored = {AggTime(t, j) : j \in 0..(AggPoints - 1)}
           /\ tsCalls = AggPoints
           /\ TsAggQuery(t)

SpecTsAgg == Init /\ [][NextTsAgg]_vars

\* C33: with the ten points stored from start time t, the aggregation by
\* five minutes from t to t + 600 returns exactly two buckets, in ascending
\* order, each with the mean and the count of the points that fall into it.
C33_AggregationTwoBuckets ==
    [][\A t \in StartTimes :
           TsAggQuery(t) =>
               LET ret == tsLast'.ret
                   inBucket(b) == {i \in 0..(AggPoints - 1) : (AggTime(t, i) \div 300) * 300 = b}
               IN  /\ Len(ret) = 2
                   /\ ret[1].timestamp < ret[2].timestamp
                   /\ \A k \in DOMAIN ret :
                          /\ ret[k].count = Cardinality(inBucket(ret[k].timestamp))
                          /\ ret[k].value.den = ret[k].count
                          /\ ret[k].value.num
                                 = SeqSum([j \in 1..AggPoints |->
                                              IF (j - 1) \in inBucket(ret[k].timestamp)
                                              THEN AggValue(j - 1) ELSE 0])]_vars

----------------------------------------------------------------------------
(* The data profiler and the engine selector.  A dataset is a list of      *)
(* items; an item maps field names to JSON values, written as literals.    *)

MaxItems == 2

\* The profiler and the selector keep no state between calls, so the calls
\* of one behaviour are independent of one another.
MaxProfCalls == 1

ProfFields == <<"created", "value", "user_id", "meta">>

\* the values a field takes in the datasets explored
FieldValues(field) ==
    CASE field = "created" -> {"1", "'x'", "{}"}
      [] field = "value"   -> {"0", "1"}
      [] field = "user_id" -> {"'ref1'"}
      [] field = "meta"    -> {"{}", "[]"}

Range(seq) == {seq[i] : i \in DOMAIN seq}

Items ==
    UNION {{item \in [S -> UNION {FieldValues(f) : f \in S}] :
                \A f \in S : item[f] \in FieldValues(f)} : S \in SUBSET Range(ProfFields)}

Datasets == UNION {[1..n -> Items] : n \in 0..MaxItems}

\* type(value).__name__
TypeName(value) ==
    CASE value \in {"0", "1"}       -> "int"
      [] value \in {"'x'", "'ref1'"} -> "str"
      [] value = "{}"               -> "dict"
      [] value = "[]"               -> "list"

\* len(json.dumps(value))
JsonLen(value) ==
    CASE value \in {"0", "1"}  -> 1
      [] value \in {"{}", "[]"} -> 2
      [] value = "'x'"          -> 3
      [] value = "'ref1'"       -> 6

\* len(field)
NameLen(field) ==
    CASE field \in {"created", "user_id"} -> 7
      [] field = "value" -> 5
      [] field = "meta"  -> 4

\* any(keyword in field.lower() for keyword in ['time', 'date', 'created', 'updated'])
TemporalName(field) == field = "created"

\* any(keyword in field.lower() for keyword in ['id', '_id', 'ref', 'key'])
IdName(field) == field = "user_id"

\* any(keyword in value.lower() for keyword in ['id', 'ref', 'key'])
IdValue(value) == value = "'ref1'"

\* the fields for which some item of the dataset holds a value that passes the test
FieldsWhere(data, Test(_, _)) ==
    {f \in Range(ProfFields) :
        \E i \in DOMAIN data : f \in DOMAIN data[i] /\ Test(f, data[i][f])}

AllFields(data) == FieldsWhere(data, LAMBDA f, v : TRUE)

FieldCount(data, field) == Cardinality({i \in DOMAIN data : field \in DOMAIN data[i]})

\* sum(len(item) for item in data)
TotalFields(data) == SeqSum([i \in DOMAIN data |-> Cardinality(DOMAIN data[i])])

\* statistics.mean(count / len(data) for each field), as a fraction
CalculateSchemaConsistency(data) ==
    IF AllFields(data) = {}
    THEN [num |-> 0, den |-> 1]
    ELSE [num |-> TotalFields(data), den |-> Len(data) * Cardinality(AllFields(data))]

EstimateQueryComplexity(data) ==
    LET nested == SeqSum([i \in DOMAIN data |->
                     Cardinality({f \in DOMAIN data[i] : TypeName(data[i][f]) = "dict"})])
    IN  IF TotalFields(data) > 10 * Len(data) \/ 2 * nested > Len(data) THEN "complex"
        ELSE IF TotalFields(data) > 5 * Len(data) THEN "moderate"
        ELSE "simple"

AnalyzeStructure(data) ==
    [nested_fields |-> FieldsWhere(data, LAMBDA f, v : TypeName(v) = "dict"),
     array_fields |-> FieldsWhere(data, LAMBDA f, v : TypeName(v) = "list"),
     schema_consistency |-> CalculateSchemaConsistency(data)]

AnalyzeDataTypes(data) ==
    [numeric_fields |-> FieldsWhere(data, LAMBDA f, v : TypeName(v) = "int"),
     mixed_type_fields |->
        {f \in AllFields(data) :
            Cardinality({TypeName(data[i][f]) : i \in {j \in DOMAIN data : f \in DOMAIN data[j]}}) > 1}]

\* len(json.dumps(item)): braces, and "field": value pairs joined by ", "
ItemSize(item) ==
    LET sizes == [k \in DOMAIN ProfFields |->
                     IF ProfFields[k] \in DOMAIN item
                     THEN NameLen(ProfFields[k]) + 4 + JsonLen(item[ProfFields[k]]) + 2
                     ELSE 0]
    IN  IF DOMAIN item = {} THEN 2 ELSE SeqSum(sizes)

AnalyzeSizes(data) ==
    [avg_item_size |-> [num |-> SeqSum([i \in DOMAIN data |-> ItemSize(data[i])]),
                        den |-> Len(data)]]

AnalyzeQueryPatterns(data) ==
    [range_query_fields |-> FieldsWhere(data, LAMBDA f, v : TypeName(v) = "int"),
     estimated_query_complexity |-> EstimateQueryComplexity(data)]

AnalyzeRelationships(data) ==
    LET idFields == FieldsWhere(data, LAMBDA f, v : IdName(f))
    IN  [id_fields |-> idFields,
         potential_foreign_keys |->
            FieldsWhere(data, LAMBDA f, v : TypeName(v) = "str" /\ IdValue(v)),
         relationship_score |-> [num |-> Cardinality(idFields), den |-> Len(data)]]

AnalyzeTemporalPatterns(data) ==
    LET stamps == FieldsWhere(data, LAMBDA f, v : TemporalName(f) /\ TypeName(v) = "int")
        dates  == FieldsWhere(data, LAMBDA f, v : TemporalName(f) /\ TypeName(v) = "str")
    IN  [timestamp_fields |-> stamps,
         date_fields |-> dates,
         has_temporal_data |-> stamps # {} \/ dates # {}]

AnalyzeCardinality(data) ==
    [low_cardinality_fields |->
        {f \in AllFields(data) :
            10 * Cardinality({data[i][f] : i \in {j \in DOMAIN data : f \in DOMAIN data[j]}})
                < FieldCount(data, f)}]

EngineOrder == <<"kv", "document", "column", "graph", "timeseries">>

Points(cond, n) == IF cond THEN n ELSE 0

Scores(profile) ==
    [engine \in Range(EngineOrder) |->
        CASE engine = "kv" ->
                Points(profile.total_items < 1000, 3)
              + Points(profile.size_characteristics.avg_item_size.num
                         < 1024 * profile.size_characteristics.avg_item_size.den, 2)
              + Points(profile.structure_analysis.nested_fields = {}, 2)
          [] engine = "document" ->
                Points(profile.structure_analysis.nested_fields # {}, 3)
              + Points(profile.structure_analysis.array_fields # {}, 2)
              + Points(profile.data_types.mixed_type_fields # {}, 2)
              + Points(profile.query_patterns.estimated_query_complexity = "complex", 2)
              + 1
          [] engine = "column" ->
                Points(profile.data_types.numeric_fields # {}, 2)
              + Points(profile.query_patterns.range_query_fields # {}, 3)
              + Points(profile.cardinality_analysis.low_cardinality_fields # {}, 2)
              + Points(5 * profile.structure_analysis.schema_consistency.num
                         > 4 * profile.structure_analysis.schema_consistency.den, 2)
          [] engine = "graph" ->
                Points(profile.relationship_analysis.id_fields # {}, 2)
              + Points(profile.relationship_analysis.potential_foreign_keys # {}, 3)
              + Points(10 * profile.relationship_analysis.relationship_score.num
                         > 3 * profile.relationship_analysis.relationship_score.den, 2)
          [] engine = "timeseries" ->
                Points(profile.temporal_analysis.has_temporal_data, 4)
              + Points(profile.temporal_analysis.timestamp_fields # {}, 3)
              + Points(profile.data_types.numeric_fields # {}, 1)]

\* sorted(scores.items(), key=score, reverse=True): stable, ties keep the dict's order
SortedEngines(scores) ==
    LET before(j, i) == scores[EngineOrder[j]] > scores[EngineOrder[i]]
                        \/ (scores[EngineOrder[j]] = scores[EngineOrder[i]] /\ j < i)
        rank(i) == Cardinality({j \in DOMAIN EngineOrder : before(j, i)})
    IN  [k \in DOMAIN EngineOrder |->
            EngineOrder[CHOOSE i \in DOMAIN EngineOrder : rank(i) = k - 1]]

GenerateRecommendations(profile) ==
    LET scores == Scores(profile)
        top    == SubSeq(SortedEngines(scores), 1, 2)
        recs   == SelectSeq(top, LAMBDA engine : scores[engine] > 0)
    IN  IF recs = <<>> THEN <<"document">> ELSE recs

EmptyProfile ==
    [total_items |-> 0,
     structure_analysis |-> EmptyMap, data_types |-> EmptyMap,
     size_characteristics |-> EmptyMap, query_patterns |-> EmptyMap,
     relationship_analysis |-> EmptyMap, temporal_analysis |-> EmptyMap,
     cardinality_analysis |-> EmptyMap,
     engine_recommendations |-> <<"kv">>]

ProfileOf(data) ==
    IF data = <<>>
    THEN EmptyProfile
    ELSE LET profile ==
                [total_items |-> Len(data),
                 structure_analysis |-> AnalyzeStructure(data),
                 data_types |-> AnalyzeDataTypes(data),
                 size_characteristics |-> AnalyzeSizes(data),
                 query_patterns |-> AnalyzeQueryPatterns(data),
                 relationship_analysis |-> AnalyzeRelationships(data),
                 temporal_analysis |-> AnalyzeTemporalPatterns(data),
                 cardinality_analysis |-> AnalyzeCardinality(data),
                 engine_recommendations |-> <<>>]
         IN  [profile EXCEPT !.engine_recommendations = GenerateRecommendations(profile)]

profOthers == <<docVars, kvVars, thrVars, snapVars, colVars, grVars, tsVars>>

ProfileData(data) ==
    /\ profCalls < MaxProfCalls
    /\ profCalls' = profCalls + 1
    /\ profLast' = [op |-> "profile_data", data |-> data, outcome |-> "ok",
                    ret |-> ProfileOf(data)]
    /\ UNCHANGED <<selLast, mxMetrics, mxArrived, mxStats, mxClock, mxLast>>
    /\ UNCHANGED profOthers

NextProfiler == profCalls < MaxProfCalls /\ \E data \in Datasets : ProfileData(data)

SpecProfiler == Init /\ [][NextProfiler]_vars

\* the dataset holds a field whose name is temporal and whose value is a number or a string
Temporal(data) ==
    \E i \in DOMAIN data : \E f \in DOMAIN data[i] :
        f = "created" /\ data[i][f] \in {"1", "'x'"}

\* C35: the profile of a non-empty dataset with temporal data recommends the
\* time-series engine, whatever the other features of the dataset
C35_TemporalRecommendsTimeseries ==
    (profLast.op = "profile_data" /\ profLast.data # <<>> /\ Temporal(profLast.data))
        => "timeseries" \in Range(profLast.ret.engine_recommendations)

UseCases == {"analytics", "transactional", "real-time", "graph_analysis", "general"}

\* adjusted.insert(0, adjusted.pop(adjusted.index(engine))) when engine is in the list
MoveToFront(adjusted, engine) ==
    IF engine \in Range(adjusted)
    THEN <<engine>> \o SelectSeq(adjusted, LAMBDA e : e # engine)
    ELSE adjusted

ApplyUseCaseAdjustments(recommendations, useCase) ==
    CASE useCase = "analytics" ->
            MoveToFront(MoveToFront(recommendations, "column"), "timeseries")
      [] useCase = "transactional" ->
            MoveToFront(MoveToFront(recommendations, "document"), "kv")
      [] useCase = "real-time" ->
            MoveToFront(MoveToFront(recommendations, "kv"), "timeseries")
      [] useCase = "graph_analysis" ->
            <<"graph">> \o SelectSeq(recommendations, LAMBDA e : e # "graph")
      [] OTHER -> recommendations

\* select_engine: profile, adjust, take the first; the performance estimate
\* reads size_characteristics['avg_item_size'], which an empty profile lacks
SelectEngine(data, useCase) ==
    LET profile  == ProfileOf(data)
        adjusted == ApplyUseCaseAdjustments(profile.engine_recommendations, useCase)
        best     == IF adjusted # <<>> THEN adjusted[1] ELSE "document"
    IN  /\ profCalls < MaxProfCalls
        /\ profCalls' = profCalls + 1
        /\ profLast' = [op |-> "profile_data", data |-> data, outcome |-> "ok",
                        ret |-> profile]
        /\ selLast' = IF data = <<>>
                      THEN [op |-> "select_engine", use_case |-> useCase,
                            outcome |-> "KeyError"]
                      ELSE [op |-> "select_engine", use_case |-> useCase, outcome |-> "ok",
                            adjusted |-> adjusted, engine |-> best]
        /\ UNCHANGED <<mxMetrics, mxArrived, mxStats, mxClock, mxLast>>
        /\ UNCHANGED profOthers

NextSelector ==
    profCalls < MaxProfCalls /\ \E data \in Datasets, useCase \in UseCases : SelectEngine(data, useCase)

SpecSelector == Init /\ [][NextSelector]_vars

Preferred ==
    [u \in {"analytics", "transactional", "real-time"} |->
        CASE u = "analytics"     -> <<"column", "timeseries">>
          [] u = "transactional" -> <<"document", "kv">>
          [] u = "real-time"     -> <<"kv", "timeseries">>]

\* C34: when both preferred engines of the use case are recommended by the
\* profiler, the adjusted list starts with the first-named one, followed by
\* the second-named one, and the selected engine is the first of the list
C34_UseCaseOrder ==
    (/\ selLast.outcome = "ok" /\ selLast.op = "select_engine"
     /\ selLast.use_case \in DOMAIN Preferred
     /\ Range(Preferred[selLast.use_case])
            \subseteq Range(profLast.ret.engine_recommendations))
        => /\ SubSeq(selLast.adjusted, 1, 2) = Preferred[selLast.use_case]
           /\ selLast.engine = selLast.adjusted[1]

----------------------------------------------------------------------------
(* The metrics sink.  A record holds the engine, the operation, the value  *)
(* and the time of its arrival; the clock advances by one second per       *)
(* record_metric.  Means and medians are fractions; the standard deviation *)
(* of get_engine_stats is left out.                                        *)

MaxHistory == 3
MaxMxCalls == 2
MaxMixed == 1
MaxFill == 1001
MaxWindow == 1000

MxEngines == {"kv", "document"}
MxOperations == {"write", "throughput", "scan"}
MxValues == {1, 2}
MxHours == 24
WindowNames ==
    {"write_latency", "read_latency", "query_latency", "throughput", "error_rate",
     "memory_usage"}
MxMetricNames == {"throughput", "write_latency"}

\* the window that record_metric appends to; NoWindow for any other operation
NoWindow == "none"
WindowOf(operation) ==
    CASE operation \in {"write", "read", "query"} ->
            (CASE operation = "write" -> "write_latency"
               [] operation = "read"  -> "read_latency"
               [] operation = "query" -> "query_latency")
      [] operation = "throughput" -> "throughput"
      [] operation = "error"      -> "error_rate"
      [] operation = "memory"     -> "memory_usage"
      [] OTHER -> NoWindow

\* engine_stats[engine] of the defaultdict, without inserting it
NewWindows == [w \in WindowNames |-> <<>>]
WindowsOf(stats, engine) == IF engine \in DOMAIN stats THEN stats[engine] ELSE NewWindows

\* a list append that never drops a value
ListAppend(window, value) == Append(window, value)

\* deque(maxlen=1000).append
DequeAppend(window, value) ==
    IF Len(window) >= MaxWindow THEN Append(Tail(window), value) ELSE Append(window, value)

\* self.metrics.append(metric), then pop(0) when the list is longer than max_history
HistoryAppend(metrics, metric) ==
    LET longer == Append(metrics, metric)
    IN  IF Len(longer) > MaxHistory THEN Tail(longer) ELSE longer

MxRecord(engine, operation, value) ==
    LET metric == [value |-> value, timestamp |-> mxClock + 1, operation |-> operation,
                   engine |-> engine]
        w      == WindowOf(operation)
    IN  /\ mxClock' = mxClock + 1
        /\ mxMetrics' = HistoryAppend(mxMetrics, metric)
        /\ mxArrived' = Append(mxArrived, metric)
        /\ mxStats' = IF w = NoWindow
                      THEN mxStats
                      ELSE MapPut(mxStats, engine,
                              [WindowsOf(mxStats, engine) EXCEPT
                                  ![w] = DequeAppend(WindowsOf(mxStats, engine)[w], value)])
        /\ mxLast' = [op |-> "record_metric", outcome |-> "ok"]
        /\ UNCHANGED <<profLast, profCalls, selLast>>
        /\ UNCHANGED profOthers

MxClear(engine) ==
    /\ mxStats' = IF engine \in DOMAIN mxStats
                  THEN MapPut(mxStats, engine, NewWindows)
                  ELSE mxStats
    /\ mxLast' = [op |-> "clear_metrics", outcome |-> "ok"]
    /\ UNCHANGED <<mxMetrics, mxArrived, mxClock, profLast, profCalls, selLast>>
    /\ UNCHANGED profOthers

MxClearAll ==
    /\ mxMetrics' = <<>>
    /\ mxStats' = EmptyMap
    /\ mxLast' = [op |-> "clear_metrics", outcome |-> "ok"]
    /\ UNCHANGED <<mxArrived, mxClock, profLast, profCalls, selLast>>
    /\ UNCHANGED profOthers

SeqMin(values) == CHOOSE x \in Range(values) : \A y \in Range(values) : x <= y
SeqMax(values) == CHOOSE x \in Range(values) : \A y \in Range(values) : x >= y

\* statistics.median: the middle of the sorted values, or the mean of the two middle ones
Median(values) ==
    LET sorted == SortSeq(values, LAMBDA a, b : a < b)
        n      == Len(values)
    IN  IF n % 2 = 1
        THEN [num |-> sorted[(n + 1) \div 2], den |-> 1]
        ELSE [num |-> sorted[n \div 2] + sorted[n \div 2 + 1], den |-> 2]

Describe(values) ==
    [count |-> Len(values), mean |-> Avg(values), median |-> Median(values),
     min |-> SeqMin(values), max |-> SeqMax(values)]

\* get_engine_stats(engine) with no time window
EngineStats(stats, engine) ==
    IF engine \notin DOMAIN stats
    THEN EmptyMap
    ELSE LET names == {w \in WindowNames : stats[engine][w] # <<>>}
         IN  [w \in names |-> Describe(stats[engine][w])]

\* get_performance_trends(engine, metric, hours): the records of the last
\* hours whose operation is the metric, per hour of arrival
PerformanceTrends(metrics, stats, clock, engine, metric, hours) ==
    IF engine \notin DOMAIN stats \/ metric \notin DOMAIN stats[engine]
    THEN <<>>
    ELSE LET recent == SelectSeq(metrics,
                          LAMBDA m : /\ m.engine = engine /\ m.operation = metric
                                     /\ m.timestamp >= clock - hours * 3600)
             hourOf(m) == (m.timestamp \div 3600) * 3600
             hours_  == TsSorted({hourOf(recent[i]) : i \in DOMAIN recent})
             valuesOf(h) == LET ms == SelectSeq(recent, LAMBDA m : hourOf(m) = h)
                            IN  [i \in DOMAIN ms |-> ms[i].value]
         IN  [k \in DOMAIN hours_ |->
                 [timestamp |-> hours_[k], count |-> Len(valuesOf(hours_[k])),
                  mean |-> Avg(valuesOf(hours_[k])), median |-> Median(valuesOf(hours_[k])),
                  min |-> SeqMin(valuesOf(hours_[k])), max |-> SeqMax(valuesOf(hours_[k]))]]

MxRead(last) ==
    /\ mxLast' = last
    /\ UNCHANGED <<mxMetrics, mxArrived, mxStats, mxClock, profLast, profCalls, selLast>>
    /\ UNCHANGED profOthers

MxGetStats(engine) ==
    MxRead([op |-> "get_engine_stats", outcome |-> "ok", ret |-> EngineStats(mxStats, engine)])

MxGetTrends(engine, metric, hours) ==
    MxRead([op |-> "get_performance_trends", outcome |-> "ok",
            ret |-> PerformanceTrends(mxMetrics, mxStats, mxClock, engine, metric, hours)])

NextMetrics ==
    \/ \E engine \in MxEngines, operation \in MxOperations, value \in MxValues :
          mxClock < MaxMxCalls /\ MxRecord(engine, operation, value)
    \/ \E engine \in MxEngines : MxClear(engine)
    \/ MxClearAll
    \/ \E engine \in MxEngines : MxGetStats(engine)
    \/ \E engine \in MxEngines, metric \in MxMetricNames : MxGetTrends(engine, metric, MxHours)

SpecMetrics == Init /\ [][NextMetrics]_vars

\* A long run of record_metric: the first calls go to any engine and
\* operation, the later ones are writes of the KV engine; every value is
\* the number of its call.
NextMetricsFill ==
    \E engine \in MxEngines, operation \in MxOperations :
        /\ mxClock < MaxFill
        /\ mxClock < MaxMixed \/ (engine = "kv" /\ operation = "write")
        /\ MxRecord(engine, operation, mxClock + 1)

SpecMetricsFill == Init /\ [][NextMetricsFill]_vars

\* the last n elements of a sequence, all of them when it is shorter
LastN(seq, n) == IF Len(seq) > n THEN SubSeq(seq, Len(seq) - n + 1, Len(seq)) ELSE seq

\* the values that arrived for one engine and one window, in arrival order
Arrived(engine, w) ==
    LET ms == SelectSeq(mxArrived, LAMBDA m : m.engine = engine /\ WindowOf(m.operation) = w)
    IN  [i \in DOMAIN ms |-> ms[i].value]

\* C36: after any sequence of record_metric calls the record list holds at
\* most max_history records, the most recent ones in arrival order, and
\* every window of every engine holds at most 1000 values, the most recent
\* ones of its engine and operation class in arrival order
C36_MetricsBounded ==
    /\ Len(mxMetrics) <= MaxHistory
    /\ mxMetrics = LastN(mxArrived, MaxHistory)
    /\ \A engine \in MxEngines, w \in WindowNames :
          /\ Len(WindowsOf(mxStats, engine)[w]) <= 1000
          /\ WindowsOf(mxStats, engine)[w] = LastN(Arrived(engine, w), 1000)

\* more than 1000 writes of the KV engine arrived and more than max_history records
C36_Witness ==
    /\ Len(Arrived("kv", "write_latency")) > 1000
    /\ Len(mxStats["kv"]["write_latency"]) = 1000
    /\ Len(mxArrived) > MaxHistory
    /\ Len(mxMetrics) = MaxHistory

\* the records of a list that belong to other engines than the given one
OtherRecords(metrics, engine) == SelectSeq(metrics, LAMBDA m : m.engine # engine)

\* C37: after clear_metrics(e) nothing recorded for e is reported by
\* get_engine_stats(e) or get_performance_trends(e, metric, hours) or is left
\* in the record list, and the records and windows of the other engines are
\* as before; clear_metrics() empties the record list and every window
C37_ClearWipesEngine ==
    [][/\ \A engine \in MxEngines :
            MxClear(engine) =>
                /\ EngineStats(mxStats', engine) = EmptyMap
                /\ \A metric \in WindowNames :
                      PerformanceTrends(mxMetrics', mxStats', mxClock', engine, metric,
                                        MxHours) = <<>>
                /\ \A i \in DOMAIN mxMetrics' : mxMetrics'[i].engine # engine
                /\ OtherRecords(mxMetrics', engine) = OtherRecords(mxMetrics, engine)
                /\ \A other \in MxEngines \ {engine} :
                      WindowsOf(mxStats', other) = WindowsOf(mxStats, other)
       /\ MxClearAll =>
                /\ mxMetrics' = <<>>
                /\ \A engine \in MxEngines :
                      /\ EngineStats(mxStats', engine) = EmptyMap
                      /\ WindowsOf(mxStats', engine) = NewWindows]_vars

----------------------------------------------------------------------------
(* The Document engine's query by one equality: the index path.            *)

\* query with the filter {field: value}, value a number or a string
DocQueryEq(coll, field, value) ==
    LET found == DocQuery(Mem(docStore, docIndexes), coll, field :> value)
    IN  /\ docPhase = "started"
        /\ docLast' = IF KeyError \in found THEN DocOutcome("query", "KeyError")
                      ELSE DocReturn("query", found)
        /\ UNCHANGED <<docStore, docIndexes, docWalFile, docWalOpen, docFs, docPhase, docSeen>>
        /\ UNCHANGED docOthers

\* query with the filter {field: None}: idx.get(None, set()); no document
\* of the model holds None, so no index has the key None
DocQueryNull(coll, field) ==
    /\ docPhase = "started"
    /\ docLast' = DocReturn("query", {})
    /\ UNCHANGED <<docStore, docIndexes, docWalFile, docWalOpen, docFs, docPhase, docSeen>>
    /\ UNCHANGED docOthers

\* query with the filter {field: [1]}: idx.get of a list raises TypeError
DocQueryList(coll, field) ==
    /\ docPhase = "started"
    /\ docLast' = DocOutcome("query", "TypeError")
    /\ UNCHANGED <<docStore, docIndexes, docWalFile, docWalOpen, docFs, docPhase, docSeen>>
    /\ UNCHANGED docOthers

NextDocEq ==
    \/ DocNew
    \/ docPhase = "new" /\ DocStartup
    \/ \E c \in Colls, k \in Keys, v \in Vals : DocCanWrite /\ DocPut(c, k, v, TRUE)
    \/ \E c \in Colls, k \in Keys, v \in Vals : DocCanWrite /\ DocPutTagged(c, k, v, TRUE)
    \/ \E c \in Colls, v \in Vals : DocQueryEq(c, "v", v)
    \/ \E c \in Colls, k \in Keys : DocQueryEq(c, "_id", k)
    \/ \E c \in Colls, f \in CmpFields : DocQueryNull(c, f)
    \/ \E c \in Colls : DocQueryList(c, "tags")

SpecDocEq == Init /\ [][NextDocEq]_vars

\* the full scan: the documents of the collection that _match accepts
FullScan(coll, Accepts(_)) ==
    {MapGet(docStore, coll, EmptyMap)[k] :
        k \in {i \in DOMAIN MapGet(docStore, coll, EmptyMap) :
                  Accepts(MapGet(docStore, coll, EmptyMap)[i])}}

\* C38: a query by one top-level equality {f: v} returns through the index
\* exactly the documents the full scan would return, also when v is null,
\* when v is a list, and when some documents lack the field
C38_QueryPathsAgree ==
    [][/\ \A c \in Colls, v \in Vals :
            DocQueryEq(c, "v", v)
                => docLast' = DocReturn("query",
                                 FullScan(c, LAMBDA d : "v" \in DOMAIN d /\ d["v"] = v))
       /\ \A c \in Colls, k \in Keys :
            DocQueryEq(c, "_id", k)
                => docLast' = DocReturn("query",
                                 FullScan(c, LAMBDA d : "_id" \in DOMAIN d /\ d["_id"] = k))
       /\ \A c \in Colls, f \in CmpFields :
            DocQueryNull(c, f)
                => docLast' = DocReturn("query", FullScan(c, LAMBDA d : f \notin DOMAIN d))
       /\ \A c \in Colls :
            DocQueryList(c, "tags")
                => docLast' = DocReturn("query",
                                 FullScan(c, LAMBDA d : "tags" \in DOMAIN d /\ d["tags"] = <<1>>))
      ]_vars

----------------------------------------------------------------------------
(* The Graph engine's adjacency against its edge store.                    *)

\* the adjacency startup builds from the store: an entry for every stored
\* node and for both ends of every stored edge that has them, holding the
\* ids of the edges that leave and that reach the node
GrRebuildAdjacency(nodes, edges) ==
    LET linked == {e \in DOMAIN edges : Truthy(edges[e]["from"]) /\ Truthy(edges[e]["to"])}
        keys   == (DOMAIN nodes) \cup {edges[e]["from"] : e \in linked}
                                 \cup {edges[e]["to"] : e \in linked}
    IN  [n \in keys |->
            [outgoing |-> {e \in linked : edges[e]["from"] = n},
             incoming |-> {e \in linked : edges[e]["to"] = n}]]

\* the edge ids an adjacency holds for a node on one side
AdjSide(adj, n, side) == IF n \in DOMAIN adj THEN adj[n][side] ELSE {}

\* C39: after any sequence of put, add_edge, delete and delete_edge the
\* adjacency holds edge e as outgoing of n exactly when e is stored with
\* from = n, and as incoming of n exactly when e is stored with to = n, and
\* every node has the outgoing and incoming edges that the adjacency startup
\* would rebuild from the store gives it
C39_AdjacencyExact ==
    LET adj == MapGet(grAdj, QGraph, EmptyMap)
    IN  /\ \A n \in QNodes, e \in EdgeIds :
              /\ e \in AdjSide(adj, n, "outgoing")
                    <=> (e \in DOMAIN QEdges /\ QEdges[e]["from"] = n)
              /\ e \in AdjSide(adj, n, "incoming")
                    <=> (e \in DOMAIN QEdges /\ QEdges[e]["to"] = n)
        /\ QGraph \in DOMAIN grStore
              => \A n \in QNodes, side \in {"outgoing", "incoming"} :
                    AdjSide(adj, n, side)
                        = AdjSide(GrRebuildAdjacency(grStore[QGraph].nodes,
                                                     grStore[QGraph].edges), n, side)

====
